---- MODULE Spec2Model ----
(***************************************************************************)
(* Model of src/uploader.py (class YouTubeUploader).                       *)
(*                                                                         *)
(* Spec          upload_videos: playlist-cache load, confirmation gate,    *)
(*               and per record the resumable upload loop, the playlist    *)
(*               assignment and the rename of the local file.              *)
(* SpecResolver  _determine_playlists applied to a folder lineage.         *)
(* SpecClassifier _is_video_file applied to a file name, before and after  *)
(*               the processed marker is put in front of it.               *)
(* SpecScan      find_videos over a directory tree, renames of discovered  *)
(*               files, and a second find_videos.                          *)
(* SpecMain      main: path checks, scan, preview mode, authentication,    *)
(*               upload_videos, exit status, KeyboardInterrupt.            *)
(* SpecCache     _load_playlist_cache item by item and                     *)
(*               _get_or_create_playlist, in any order of calls.           *)
(* SpecNormalizer _fix_encoding_issues applied to a title, and to its own  *)
(*               result.                                                   *)
(* SpecLive      upload_videos for a batch of two records, every step      *)
(*               that can be taken being taken.                            *)
(* SpecAssign    upload_videos from the return of the upload of one        *)
(*               record, over the folder lineages a scan can give it.      *)
(* SpecTransfer  one _upload_single_video call, counting the retriable     *)
(*               errors of each chunk.                                     *)
(*                                                                         *)
(* File names are sequences of one-character strings, so startswith,       *)
(* replace and rsplit are computed as Python computes them.                *)
(***************************************************************************)
EXTENDS Integers, Sequences, FiniteSets, TLC

(* ------------------------------ bounds --------------------------------- *)
\* longest batch handed to upload_videos
MaxVideos == 2
\* most progress-only answers of next_chunk during one upload
MaxChunks == 1
\* longest folder lineage given to _determine_playlists in SpecResolver
MaxDepth == 4

(* --------------------------- program constants ------------------------- *)
None == "None"
\* None where the other values are sequences: file names, playlist ids, dicts
NoName == <<>>
NoPlaylist == <<>>
NoInfo == <<>>

Str_merged      == <<"m","e","r","g","e","d","_">>
Str_unmergable  == <<"u","n","m","e","r","g","a","b","l","e","_">>
Str_onlymic     == <<"o","n","l","y","m","i","c","_">>
Str_onlydesktop == <<"o","n","l","y","d","e","s","k","t","o","p","_">>

VIDEO_PREFIXES == <<Str_merged, Str_unmergable, Str_onlymic, Str_onlydesktop>>
UPLOADED_PREFIX == <<"u","p","l","o","a","d","e","d","_">>

RETRIABLE_STATUS == {500, 502, 503, 504}
QUOTA_STATUS == 403
MAX_RETRIES == 3
MAX_RESULTS == 50

(* ----------------------------- str helpers ----------------------------- *)
\* str.startswith
StartsWith(s, p) == Len(s) >= Len(p) /\ SubSeq(s, 1, Len(p)) = p

\* indices at which p occurs in s
Occurrences(s, p) ==
    {k \in 1..(Len(s) - Len(p) + 1) : SubSeq(s, k, k + Len(p) - 1) = p}

SetMin(S) == CHOOSE x \in S : \A y \in S : x <= y
SetMax(S) == CHOOSE x \in S : \A y \in S : x >= y

\* str.replace(old, new, 1): the first occurrence only
ReplaceFirst(s, old, new) ==
    IF Occurrences(s, old) = {} THEN s
    ELSE LET k == SetMin(Occurrences(s, old))
         IN  SubSeq(s, 1, k - 1) \o new \o SubSeq(s, k + Len(old), Len(s))

\* str.rsplit('.', 1): one part when there is no dot, else [head, tail]
RSplitDot(s) ==
    LET dots == {k \in 1..Len(s) : s[k] = "."}
    IN  IF dots = {} THEN <<s>>
        ELSE LET k == SetMax(dots)
             IN  <<SubSeq(s, 1, k - 1), SubSeq(s, k + 1, Len(s))>>

Digit == <<"0","1","2","3","4","5","6","7","8","9">>

\* str(n) of the f-string, n >= 0
RECURSIVE IntToStr(_)
IntToStr(n) ==
    IF n < 10 THEN <<Digit[n + 1]>>
    ELSE IntToStr(n \div 10) \o <<Digit[(n % 10) + 1]>>

\* list(reversed(seq))
Reversed(s) == [k \in 1..Len(s) |-> s[Len(s) + 1 - k]]

(* ------------------------- Playlist resolver --------------------------- *)
MAIN_FOLDER == "SPIEL AUFNAHMEN"
FolderNames == {MAIN_FOLDER, "GameX", "BUG"}

\* folder_structure[2:]
Tail2(s) == IF Len(s) > 2 THEN SubSeq(s, 3, Len(s)) ELSE <<>>

\* faulty variant: the main folder is left out of the targets
C5_determine_playlists_NoRoot(folder_structure) ==
    LET n == Len(folder_structure)
    IN  [main_folder |-> folder_structure[1],
         game_folder |-> IF n > 1 THEN folder_structure[2] ELSE None,
         sub_folders |-> Tail2(folder_structure),
         all_folders |-> folder_structure,
         primary_playlist |-> folder_structure[n],
         potential_playlists |->
             IF n > 1 THEN Reversed(SubSeq(folder_structure, 2, n))
             ELSE folder_structure,
         additional_playlists |->
             IF n > 2 THEN Reversed(SubSeq(folder_structure, 2, n - 1)) ELSE <<>>]

\* YouTubeUploader._determine_playlists
_determine_playlists(folder_structure) ==
    LET base == [main_folder |-> IF Len(folder_structure) > 0
                                 THEN folder_structure[1] ELSE None,
                 game_folder |-> IF Len(folder_structure) > 1
                                 THEN folder_structure[2] ELSE None,
                 sub_folders |-> Tail2(folder_structure),
                 all_folders |-> folder_structure]
    IN  IF Len(folder_structure) > 2 THEN
            base @@
            [primary_playlist |-> folder_structure[Len(folder_structure)],
             potential_playlists |-> Reversed(folder_structure),
             additional_playlists |->
                 Reversed(SubSeq(folder_structure, 1, Len(folder_structure) - 1))]
        ELSE IF Len(folder_structure) > 1 THEN
            base @@
            [primary_playlist |-> folder_structure[2],
             potential_playlists |-> Reversed(folder_structure),
             additional_playlists |-> <<folder_structure[1]>>]
        ELSE
            base @@
            [primary_playlist |-> folder_structure[1],
             potential_playlists |-> folder_structure,
             additional_playlists |-> <<>>]

(* ------------------------------- state --------------------------------- *)
VARIABLES
    pc,                     \* position inside upload_videos
    videos,                 \* the batch: records produced by the scan
    youtube_service,        \* TRUE when authenticate_youtube has built the client
    playlist_cache,         \* self.playlist_cache: name -> playlist id
    playlist_cache_loaded,  \* self.playlist_cache_loaded
    remote_playlists,       \* playlists of the account: set of <<title, n>>
    fs,                     \* directory entries: set of [dir, name]
    i,                      \* loop index of upload_videos (1-based)
    status,                 \* per record: Pending, Uploading, Uploaded, ...
    uploaded,               \* per record: its upload returned a video id
    renamed_to,             \* per record: name its file was renamed to, or None
    video_id,               \* value returned by _upload_single_video
    retry,                  \* local retry of _upload_single_video
    waits,                  \* delays of the time.sleep(2 ** retry) calls so far
    errs,                   \* retriable errors raised by next_chunk so far
    chunks,                 \* progress-only answers of next_chunk so far
    last_chunk,             \* what the latest next_chunk call produced
    quota_at,               \* record during which quotaExceeded was seen, or 0
    j,                      \* position in potential_playlists
    successful_additions,   \* local counter of _add_to_playlist
    assign_log,             \* per playlist name of this record: id and add result
    success_count,          \* local success_count of upload_videos
    stats,                  \* self.stats (the two upload counters)
    sleeps,                 \* number of time.sleep(10) pauses
    confirm_log,            \* per input() prompt: did the user mean to go on
    effects,                \* which mutating calls have been issued in this run
    result,                 \* return value of upload_videos once pc is done
    summary_printed,        \* _print_upload_summary has run
    folder_structure,       \* SpecResolver: argument of _determine_playlists
    playlist_info,          \* SpecResolver: its return value
    rpc,                    \* SpecResolver: position
    preview,                \* main: args.preview
    recordings_path,        \* main: "unset", "missing" or "exists"
    exit_code,              \* main: argument of sys.exit, NoExit while running
    interrupted_at,         \* main: where a KeyboardInterrupt arrived, or NoInterrupt
    main_log,               \* main: how find_videos and authenticate_youtube ended
    found,                  \* SpecScan: records of the latest find_videos
    renamed,                \* SpecScan: renames done between the two scans
    spc,                    \* SpecScan: position
    file_name,              \* SpecClassifier: name handed to _is_video_file
    built_from,             \* SpecClassifier: how that name was put together
    eligible,               \* SpecClassifier: latest answer of _is_video_file
    was_eligible,           \* SpecClassifier: answer before the marker was added
    cls_pc,                 \* SpecClassifier: position
    list_items,             \* SpecCache: items of the list response still to store
    pending_name,           \* SpecCache: argument of the running _get_or_create_playlist
    created,                \* SpecCache: names whose playlists().insert succeeded
    cpc,                    \* SpecCache: position
    text,                   \* SpecNormalizer: string given to _fix_encoding_issues
    once,                   \* SpecNormalizer: _fix_encoding_issues(text)
    twice,                  \* SpecNormalizer: _fix_encoding_issues(once)
    npc,                    \* SpecNormalizer: position
    chunk_errs,             \* SpecTransfer: retriable errors per chunk of the upload
    tpc                     \* SpecTransfer: position

uploadVars == <<pc, videos, youtube_service, playlist_cache,
                playlist_cache_loaded, remote_playlists, fs, i, status,
                uploaded, renamed_to, video_id, retry, waits, errs, chunks, last_chunk, quota_at, j,
                successful_additions, assign_log, success_count, stats, sleeps,
                confirm_log, effects, result, summary_printed>>
\* uploadVars without the position
uploadState == <<videos, youtube_service, playlist_cache,
                 playlist_cache_loaded, remote_playlists, fs, i, status,
                 uploaded, renamed_to, video_id, retry, waits, errs, chunks,
                 last_chunk, quota_at, j, successful_additions, assign_log,
                 success_count, stats, sleeps, confirm_log, effects, result,
                 summary_printed>>
resolverVars == <<folder_structure, playlist_info, rpc>>
mainVars == <<preview, recordings_path, exit_code, interrupted_at, main_log>>
scanVars == <<found, renamed, spc>>
classifierVars == <<file_name, built_from, eligible, was_eligible, cls_pc>>
cacheVars == <<list_items, pending_name, created, cpc>>
normalizerVars == <<text, once, twice, npc>>
transferVars == <<chunk_errs, tpc>>
otherVars == <<resolverVars, mainVars, scanVars, classifierVars, cacheVars,
               normalizerVars, transferVars>>
vars == <<uploadVars, otherVars>>

(* ------------------------------ file names ----------------------------- *)
Ext_mp4 == <<".","m","p","4">>
Name_merged_X     == Str_merged \o <<"X">> \o Ext_mp4
Name_unmergable_X == Str_unmergable \o <<"X">> \o Ext_mp4
Name_onlymic_X    == Str_onlymic \o <<"X">> \o Ext_mp4
Name_X            == <<"X">> \o Ext_mp4
Name_uploaded_X   == UPLOADED_PREFIX \o <<"X">> \o Ext_mp4
Name_uploaded_X_1 == UPLOADED_PREFIX \o <<"X","_","1">> \o Ext_mp4

Dir_main   == <<MAIN_FOLDER>>
Dir_game   == <<MAIN_FOLDER, "GameX">>
Dir_upload == <<MAIN_FOLDER, "merged_GameX">>

\* the dict built by _analyze_video_file / _analyze_upload_folder_video
VideoInfo(dir, name, lineage) ==
    [file_path        |-> [dir |-> dir, name |-> name],
     filename         |-> name,
     folder_structure |-> lineage,
     playlist_info    |-> _determine_playlists(lineage)]

\* records a scan can produce: prefixed files of plain directories, and a
\* file without prefix inside the upload folder merged_GameX
Candidates ==
    { VideoInfo(Dir_game, Name_merged_X, <<MAIN_FOLDER, "GameX">>),
      VideoInfo(Dir_game, Name_unmergable_X, <<MAIN_FOLDER, "GameX">>),
      VideoInfo(Dir_upload, Name_X, <<MAIN_FOLDER, "GameX">>),
      VideoInfo(Dir_main, Name_onlymic_X, <<MAIN_FOLDER>>) }

\* how a run can start: the files earlier runs have left in the game
\* directory, and the playlists the account holds
Starts ==
    { [left |-> {}, remote |-> {}],
      [left |-> {[dir |-> Dir_game, name |-> Name_uploaded_X],
                 [dir |-> Dir_game, name |-> Name_uploaded_X_1]},
       remote |-> {<<"GameX", 1>>}] }

\* files that earlier runs may have left in the game directory
LeftOvers == {s.left : s \in Starts}

\* playlists the account may hold before the run
RemoteStarts == {s.remote : s \in Starts}

Batches ==
    UNION { {b \in [1..n -> Candidates] :
                \A a, c \in 1..n : a # c => b[a] # b[c]} : n \in 0..MaxVideos }

(* ------------------------------ transport ------------------------------ *)
\* id the service assigns to the video of the k-th upload of the run
VideoIdOf(k) == <<"vid1", "vid2", "vid3", "vid4", "vid5">>[k]

Outcome(kind, st, quota, id) ==
    [kind |-> kind, status |-> st, quota |-> quota, id |-> id]

NoChunk == Outcome("none", 0, FALSE, None)

\* what one request.next_chunk() call of the k-th upload can produce:
\* progress without a response, a final response with or without 'id', an
\* HttpError with its status and whether str(e) holds 'quotaExceeded', or
\* another exception
ChunkOutcomes(k) ==
    {Outcome("progress", 0, FALSE, None)}
    \cup {Outcome("response", 200, FALSE, v) : v \in {VideoIdOf(k), None}}
    \cup {Outcome("HttpError", st, FALSE, None) : st \in RETRIABLE_STATUS \cup {403, 404}}
    \cup {Outcome("HttpError", st, TRUE, None) : st \in {403, 404}}
    \cup {Outcome("Exception", 0, FALSE, None)}

\* what the service meant by the answer: a transient server-side failure,
\* or the exhausted quota
TransientFailure(o) == o.kind = "HttpError" /\ o.status \in {500, 502, 503, 504}
QuotaExhausted(o) == o.kind = "HttpError" /\ o.status = 403 /\ o.quota

\* the except-branch of the upload loop taken for an HttpError
\*   "retry"  sleep and call next_chunk again
\*   "raise"  re-raise, which ends _upload_single_video with None
\* faulty variant: 403 is treated as retriable
C7_IsRetriable_With403(o) ==
    o.kind = "HttpError" /\ o.status \in RETRIABLE_STATUS \cup {403}

IsRetriable(o) == o.kind = "HttpError" /\ o.status \in RETRIABLE_STATUS
IsQuota(o) == o.kind = "HttpError" /\ o.status = QUOTA_STATUS /\ o.quota

\* faulty variant: gives up on the third retriable error
C6_HttpErrorBranch_OffByOne(o, newRetry) ==
    IF IsRetriable(o)
    THEN IF newRetry >= MAX_RETRIES THEN "raise" ELSE "retry"
    ELSE "raise"

\* faulty variant: allows a fourth retry
C8_HttpErrorBranch_OneMore(o, newRetry) ==
    IF IsRetriable(o)
    THEN IF newRetry > MAX_RETRIES + 1 THEN "raise" ELSE "retry"
    ELSE "raise"

HttpErrorBranch(o, newRetry) ==
    IF IsRetriable(o)
    THEN IF newRetry > MAX_RETRIES THEN "raise" ELSE "retry"
    ELSE IF IsQuota(o) THEN "raise"
    ELSE "raise"

RECURSIVE Pow2(_)
\* 2 ** retry
Pow2(n) == IF n = 0 THEN 1 ELSE 2 * Pow2(n - 1)

(* ------------------------------- rename -------------------------------- *)
RECURSIVE FirstPrefix(_, _)
\* the for/else over VIDEO_PREFIXES: index of the first matching prefix or 0
FirstPrefix(name, k) ==
    IF k > Len(VIDEO_PREFIXES) THEN 0
    ELSE IF StartsWith(name, VIDEO_PREFIXES[k]) THEN k
    ELSE FirstPrefix(name, k + 1)

\* new_name before collision handling
UploadedName(original_name) ==
    LET k == FirstPrefix(original_name, 1)
    IN  IF k # 0
        THEN ReplaceFirst(original_name, VIDEO_PREFIXES[k], UPLOADED_PREFIX)
        ELSE UPLOADED_PREFIX \o original_name

\* one pass of the collision loop body
Suffixed(new_name, counter) ==
    LET name_parts == RSplitDot(new_name)
    IN  IF Len(name_parts) = 2
        THEN name_parts[1] \o <<"_">> \o IntToStr(counter) \o <<".">> \o name_parts[2]
        ELSE new_name \o <<"_">> \o IntToStr(counter)

\* faulty variant: the destination is not tested for existence
C10_FreeName_NoCheck(files, dir, new_name, counter) == new_name

RECURSIVE FreeName(_, _, _, _)
\* while new_path.exists(): ...
FreeName(files, dir, new_name, counter) ==
    IF [dir |-> dir, name |-> new_name] \in files
    THEN FreeName(files, dir, Suffixed(new_name, counter), counter + 1)
    ELSE new_name

\* value of renamed_to for a record whose rename raised
RenameError == <<"O","S","E","r","r","o","r">>

\* _rename_uploaded_file: the directory after the call and the new name; osOk is FALSE when
\* Path.rename raises OSError, which the method logs and swallows
_rename_uploaded_file(files, video, osOk) ==
    LET original_path == video.file_path
        new_name == FreeName(files, original_path.dir,
                             UploadedName(original_path.name), 1)
        new_path == [dir |-> original_path.dir, name |-> new_name]
    IN  IF osOk /\ original_path \in files
        THEN [files |-> (files \ {original_path}) \cup {new_path},
              new_name |-> new_name]
        ELSE [files |-> files, new_name |-> RenameError]

(* --------------------------- playlist cache ---------------------------- *)
\* dict assignment cache[name] = id
C27_Put_Drop(cache, name, id) == cache

Put(cache, name, id) ==
    [n \in (DOMAIN cache) \cup {name} |-> IF n = name THEN id ELSE cache[n]]

RECURSIVE CacheItems(_, _)
\* the for-loop over response.get('items', [])
CacheItems(cache, items) ==
    IF items = <<>> THEN cache
    ELSE CacheItems(Put(cache, Head(items)[1], Head(items)), Tail(items))

\* orders in which playlists().list can return the account's playlists,
\* cut to maxResults entries
ListResponses(remote) ==
    {SubSeq(q, 1, IF Len(q) < MAX_RESULTS THEN Len(q) ELSE MAX_RESULTS) :
        q \in {p \in [1..Cardinality(remote) -> remote] :
                  \A a, b \in 1..Cardinality(remote) : a # b => p[a] # p[b]}}

\* _load_playlist_cache: listOk is FALSE when request.execute() raises
_load_playlist_cache(cache, loaded, service, listOk, items) ==
    IF loaded \/ ~service THEN [cache |-> cache, loaded |-> loaded]
    ELSE IF listOk THEN [cache |-> CacheItems(cache, items), loaded |-> TRUE]
    ELSE [cache |-> cache, loaded |-> TRUE]

\* id the service gives a playlist created with this title
NewPlaylistId(remote, title) ==
    <<title, Cardinality({p \in remote : p[1] = title}) + 1>>

(* --------------------------- upload_videos ----------------------------- *)
\* what the user types at the prompt "Fortfahren? (j/N)", after
\* strip().lower(): a yes-word to go on, anything else (or just Enter) not to
Typed(go) == IF go THEN {"j", "ja", "y", "yes"} ELSE {"n", "nein", ""}

\* faulty variant: everything but an explicit no counts as yes
C4_confirm_upload_DefaultYes(response) == response \notin {"n", "nein"}

\* _confirm_upload: the test applied to the typed answer
_confirm_upload(response) == response \in {"j", "ja", "y", "yes"}

\* faulty variant: the result of the upload is not tested
C2_UploadBranch_Unchecked(vid) == "add_to_playlist"

\* the if video_id / else of upload_videos
UploadBranch(vid) == IF vid # None THEN "add_to_playlist" ELSE "failed"

\* faulty variant: the pause is also made after the last record
C22_AfterRecord_AlwaysPause(idx, n) == "pause"

\* where the loop goes after a record: the pause before the next record,
\* or the summary after the last one
AfterRecord(idx, n) == IF idx < n THEN "pause" ELSE "summary"

\* faulty variant: the first failed assignment ends the loop
C9_AfterPlaylistName_Break(pos, n, ok) ==
    IF ok /\ pos < n THEN "add_to_playlist" ELSE "rename"

\* faulty variant: the loop goes on to the next record without the rename
C14_AfterPlaylistName_NoRename(pos, n, ok) ==
    IF pos < n THEN "add_to_playlist" ELSE "pause"

\* faulty variant: the loop over the names does not end after the last name
C30_AfterPlaylistName_NoEnd(pos, n, ok) == "add_to_playlist"

\* the for-loop of _add_to_playlist after the name at position pos; ok is
\* FALSE when the playlist could not be resolved or the video not added
AfterPlaylistName(pos, n, ok) == IF pos < n THEN "add_to_playlist" ELSE "rename"

NoEffects == [video_insert |-> FALSE, playlist_insert |-> FALSE,
              item_insert |-> FALSE, rename |-> FALSE]

\* exit_code while main has not called sys.exit
NoExit == -1
\* interrupted_at while no KeyboardInterrupt has been raised
NoInterrupt == "no"

\* the variables of main when upload_videos is called directly
IdleMain ==
    /\ preview = FALSE
    /\ recordings_path = "exists"
    /\ exit_code = NoExit
    /\ interrupted_at = NoInterrupt
    /\ main_log = <<>>

\* no _determine_playlists call under way
IdleResolver ==
    /\ folder_structure = <<MAIN_FOLDER>>
    /\ playlist_info = NoInfo
    /\ rpc = "idle"

\* no find_videos call under way
IdleScan ==
    /\ found = {}
    /\ renamed = {}
    /\ spc = "idle"

\* no _is_video_file call under way
IdleClassifier ==
    /\ file_name = NoName
    /\ built_from = NoInfo
    /\ eligible = FALSE
    /\ was_eligible = FALSE
    /\ cls_pc = "idle"

\* no stepwise _load_playlist_cache call under way
IdleCache ==
    /\ list_items = <<>>
    /\ pending_name = None
    /\ created = {}
    /\ cpc = "idle"

\* no _fix_encoding_issues call under way
IdleNormalizer ==
    /\ text = <<>>
    /\ once = <<>>
    /\ twice = <<>>
    /\ npc = "idle"

\* no stand-alone _upload_single_video call under way
IdleTransfer ==
    /\ chunk_errs = <<>>
    /\ tpc = "idle"

\* no client, an empty cache and an account without playlists
IdleService ==
    /\ youtube_service = FALSE
    /\ playlist_cache = <<>>
    /\ playlist_cache_loaded = FALSE
    /\ remote_playlists = {}

\* YouTubeUploader.__init__ and the locals of upload_videos before its loop;
\* the directory tree is set by each specification
IdleUpload ==
    /\ videos = <<>>
    /\ i = 0
    /\ status = <<>>
    /\ uploaded = <<>>
    /\ renamed_to = <<>>
    /\ video_id = None
    /\ retry = 0
    /\ waits = <<>>
    /\ errs = 0
    /\ chunks = 0
    /\ last_chunk = NoChunk
    /\ quota_at = 0
    /\ j = 0
    /\ successful_additions = 0
    /\ assign_log = <<>>
    /\ success_count = 0
    /\ stats = [uploaded_videos |-> 0, failed_uploads |-> 0]
    /\ sleeps = 0
    /\ confirm_log = <<>>
    /\ effects = NoEffects
    /\ result = FALSE
    /\ summary_printed = FALSE

Init ==
    /\ pc = "upload_videos"
    /\ videos \in Batches
    /\ youtube_service \in BOOLEAN
    /\ playlist_cache = <<>>
    /\ playlist_cache_loaded = FALSE
    /\ \E start \in Starts :
          /\ remote_playlists = start.remote
          /\ fs = start.left \cup {videos[k].file_path : k \in DOMAIN videos}
    /\ i = 0
    /\ status = [k \in DOMAIN videos |-> "Pending"]
    /\ uploaded = [k \in DOMAIN videos |-> FALSE]
    /\ renamed_to = [k \in DOMAIN videos |-> NoName]
    /\ video_id = None
    /\ retry = 0
    /\ waits = <<>>
    /\ errs = 0
    /\ chunks = 0
    /\ last_chunk = NoChunk
    /\ quota_at = 0
    /\ j = 0
    /\ successful_additions = 0
    /\ assign_log = <<>>
    /\ success_count = 0
    /\ stats = [uploaded_videos |-> 0, failed_uploads |-> 0]
    /\ sleeps = 0
    /\ confirm_log = <<>>
    /\ effects = NoEffects
    /\ result = FALSE
    /\ summary_printed = FALSE
    /\ IdleResolver
    /\ IdleMain
    /\ IdleScan
    /\ IdleClassifier
    /\ IdleCache
    /\ IdleNormalizer
    /\ IdleTransfer

\* upload_videos, lines 748-756: the two early returns
UploadVideosEntry ==
    /\ pc = "upload_videos"
    /\ IF videos = <<>> THEN pc' = "done" /\ result' = TRUE
       ELSE IF ~youtube_service THEN pc' = "done" /\ result' = FALSE
       ELSE pc' = "load_cache" /\ result' = result
    /\ UNCHANGED <<videos, youtube_service, playlist_cache,
                   playlist_cache_loaded, remote_playlists, fs, i, status,
                   uploaded, renamed_to, video_id, retry, waits, errs, chunks,
                   last_chunk, quota_at, j, successful_additions, assign_log,
                   success_count, stats, sleeps, confirm_log, effects,
                   summary_printed, otherVars>>

\* upload_videos, line 759: the one playlists().list call
LoadPlaylistCache ==
    /\ pc = "load_cache"
    /\ \E listOk \in BOOLEAN, items \in ListResponses(remote_playlists) :
          LET r == _load_playlist_cache(playlist_cache, playlist_cache_loaded,
                                        youtube_service, listOk, items)
          IN  /\ playlist_cache' = r.cache
              /\ playlist_cache_loaded' = r.loaded
    /\ pc' = "confirm"
    /\ UNCHANGED <<videos, youtube_service, remote_playlists, fs, i, status,
                   uploaded, renamed_to, video_id, retry, waits, errs, chunks,
                   last_chunk, quota_at, j, successful_additions, assign_log,
                   success_count, stats, sleeps, confirm_log, effects, result,
                   summary_printed, otherVars>>

\* upload_videos, lines 762-766: the confirmation gate
ConfirmUpload ==
    /\ pc = "confirm"
    /\ \E go \in BOOLEAN : \E response \in Typed(go) :
          /\ confirm_log' = Append(confirm_log, go)
          /\ IF _confirm_upload(response)
             THEN pc' = "loop" /\ i' = 1 /\ success_count' = 0 /\ result' = result
             ELSE pc' = "done" /\ result' = FALSE /\ i' = i
                  /\ success_count' = success_count
    /\ UNCHANGED <<videos, youtube_service, playlist_cache,
                   playlist_cache_loaded, remote_playlists, fs, status,
                   uploaded, renamed_to, video_id, retry, waits, errs, chunks,
                   last_chunk, quota_at, j, successful_additions, assign_log,
                   stats, sleeps, effects,
                   summary_printed, otherVars>>

\* upload_videos line 776 and _upload_single_video lines 810-832: metadata,
\* MediaFileUpload and the videos().insert request; built is FALSE when one
\* of them raises, which the outer except turns into None
StartUpload ==
    /\ pc = "loop"
    /\ retry' = 0
    /\ waits' = <<>>
    /\ errs' = 0
    /\ chunks' = 0
    /\ last_chunk' = NoChunk
    /\ video_id' = None
    /\ status' = [status EXCEPT ![i] = "Uploading"]
    /\ \E built \in BOOLEAN :
          /\ effects' = [effects EXCEPT !.video_insert = @ \/ built]
          /\ pc' = IF built THEN "next_chunk" ELSE "upload_returned"
    /\ UNCHANGED <<videos, youtube_service, playlist_cache,
                   playlist_cache_loaded, remote_playlists, fs, i, uploaded,
                   renamed_to, quota_at, j, successful_additions, assign_log,
                   success_count, stats, sleeps, confirm_log, result,
                   summary_printed, otherVars>>

\* one pass of the while response is None loop (lines 890-958); the pass
\* that ends the loop also ends _upload_single_video with an id or None
NextChunk ==
    /\ pc = "next_chunk"
    /\ \E o \in ChunkOutcomes(i) :
          /\ o.kind = "progress" => chunks < MaxChunks
          /\ last_chunk' = o
          /\ chunks' = IF o.kind = "progress" THEN chunks + 1 ELSE chunks
          /\ errs' = IF TransientFailure(o) THEN errs + 1 ELSE errs
          /\ retry' = IF IsRetriable(o) THEN retry + 1 ELSE retry
          /\ quota_at' = IF QuotaExhausted(o) /\ quota_at = 0 THEN i ELSE quota_at
          /\ CASE o.kind = "progress" ->
                    UNCHANGED <<pc, waits, video_id, uploaded>>
               [] o.kind = "response" ->
                    /\ waits' = waits
                    /\ video_id' = o.id
                    /\ uploaded' = [uploaded EXCEPT ![i] = (o.id # None)]
                    /\ pc' = "upload_returned"
               [] o.kind = "HttpError" ->
                    IF HttpErrorBranch(o, retry + 1) = "retry"
                    THEN /\ waits' = Append(waits, Pow2(retry + 1))
                         /\ UNCHANGED <<pc, video_id, uploaded>>
                    ELSE /\ waits' = waits
                         /\ pc' = "upload_returned"
                         /\ UNCHANGED <<video_id, uploaded>>
               [] o.kind = "Exception" ->
                    /\ waits' = waits
                    /\ pc' = "upload_returned"
                    /\ UNCHANGED <<video_id, uploaded>>
    /\ UNCHANGED <<videos, youtube_service, playlist_cache,
                   playlist_cache_loaded, remote_playlists, fs, i, status,
                   renamed_to, j, successful_additions, assign_log,
                   success_count, stats, sleeps, confirm_log, effects,
                   result,
                   summary_printed, otherVars>>

\* faulty variant: a failed upload ends the loop
C3_HandleUploadResult_Abort ==
    /\ pc = "upload_returned"
    /\ IF UploadBranch(video_id) = "add_to_playlist"
       THEN /\ status' = [status EXCEPT ![i] = "Uploaded"]
            /\ pc' = IF videos[i].playlist_info.potential_playlists = <<>>
                     THEN "rename" ELSE "add_to_playlist"
            /\ j' = 1
            /\ successful_additions' = 0
            /\ stats' = stats
       ELSE /\ status' = [status EXCEPT ![i] = "Failed"]
            /\ stats' = [stats EXCEPT !.failed_uploads = @ + 1]
            /\ pc' = "summary"
            /\ UNCHANGED <<j, successful_additions>>
    /\ retry' = 0
    /\ waits' = <<>>
    /\ errs' = 0
    /\ chunks' = 0
    /\ last_chunk' = NoChunk
    /\ UNCHANGED <<videos, youtube_service, playlist_cache,
                   playlist_cache_loaded, remote_playlists, fs, i, uploaded,
                   renamed_to, video_id, quota_at, assign_log, success_count,
                   sleeps, confirm_log, effects, result,
                   summary_printed, otherVars>>

\* faulty variant: a failed upload is not counted
C15_HandleUploadResult_Uncounted ==
    /\ pc = "upload_returned"
    /\ IF UploadBranch(video_id) = "add_to_playlist"
       THEN /\ status' = [status EXCEPT ![i] = "Uploaded"]
            /\ pc' = IF videos[i].playlist_info.potential_playlists = <<>>
                     THEN "rename" ELSE "add_to_playlist"
            /\ j' = 1
            /\ successful_additions' = 0
            /\ stats' = stats
       ELSE /\ status' = [status EXCEPT ![i] = "Failed"]
            /\ stats' = stats
            /\ pc' = AfterRecord(i, Len(videos))
            /\ UNCHANGED <<j, successful_additions>>
    /\ retry' = 0
    /\ waits' = <<>>
    /\ errs' = 0
    /\ chunks' = 0
    /\ last_chunk' = NoChunk
    /\ UNCHANGED <<videos, youtube_service, playlist_cache,
                   playlist_cache_loaded, remote_playlists, fs, i, uploaded,
                   renamed_to, video_id, quota_at, assign_log, success_count,
                   sleeps, confirm_log, effects, result,
                   summary_printed, otherVars>>

\* upload_videos lines 778-797 once _upload_single_video has returned: on an
\* id the record goes on to playlist assignment, on None it is counted as
\* failed and the loop moves on; the locals of the upload are gone
HandleUploadResult ==
    /\ pc = "upload_returned"
    /\ IF UploadBranch(video_id) = "add_to_playlist"
       THEN /\ status' = [status EXCEPT ![i] = "Uploaded"]
            /\ pc' = IF videos[i].playlist_info.potential_playlists = <<>>
                     THEN "rename" ELSE "add_to_playlist"
            /\ j' = 1
            /\ successful_additions' = 0
            /\ stats' = stats
       ELSE /\ status' = [status EXCEPT ![i] = "Failed"]
            /\ stats' = [stats EXCEPT !.failed_uploads = @ + 1]
            /\ pc' = AfterRecord(i, Len(videos))
            /\ UNCHANGED <<j, successful_additions>>
    /\ retry' = 0
    /\ waits' = <<>>
    /\ errs' = 0
    /\ chunks' = 0
    /\ last_chunk' = NoChunk
    /\ UNCHANGED <<videos, youtube_service, playlist_cache,
                   playlist_cache_loaded, remote_playlists, fs, i, uploaded,
                   renamed_to, video_id, quota_at, assign_log, success_count,
                   sleeps, confirm_log, effects, result,
                   summary_printed, otherVars>>

\* one pass of the for-loop of _add_to_playlist (lines 1088-1100) with the
\* _get_or_create_playlist and _add_video_to_playlist calls it makes;
\* createOk / addOk are FALSE when the request's execute() raises
AddToPlaylistStep ==
    /\ pc = "add_to_playlist"
    /\ j <= Len(videos[i].playlist_info.potential_playlists)
    /\ \E createOk \in BOOLEAN, addOk \in BOOLEAN,
          listOk \in (IF playlist_cache_loaded THEN {TRUE} ELSE BOOLEAN),
          items \in (IF playlist_cache_loaded THEN {<<>>}
                     ELSE ListResponses(remote_playlists)) :
          LET names == videos[i].playlist_info.potential_playlists
              playlist_name == names[j]
              loadedCache == _load_playlist_cache(playlist_cache,
                                 playlist_cache_loaded, youtube_service,
                                 listOk, items)
              hit == playlist_name \in DOMAIN loadedCache.cache
              newId == NewPlaylistId(remote_playlists, playlist_name)
              playlist_id == IF hit THEN loadedCache.cache[playlist_name]
                             ELSE IF createOk THEN newId ELSE NoPlaylist
          IN  /\ hit => createOk
              /\ playlist_id = NoPlaylist => addOk
              /\ playlist_cache_loaded' = loadedCache.loaded
              /\ playlist_cache' = IF ~hit /\ createOk
                                   THEN Put(loadedCache.cache, playlist_name, newId)
                                   ELSE loadedCache.cache
              /\ remote_playlists' = IF ~hit /\ createOk
                                     THEN remote_playlists \cup {newId}
                                     ELSE remote_playlists
              /\ effects' = [effects EXCEPT
                                !.playlist_insert = @ \/ ~hit,
                                !.item_insert = @ \/ (playlist_id # NoPlaylist)]
              /\ successful_additions' =
                     IF playlist_id # NoPlaylist THEN successful_additions + 1
                     ELSE successful_additions
              /\ assign_log' = Append(assign_log,
                     [name |-> playlist_name, playlist_id |-> playlist_id,
                      added |-> (playlist_id # NoPlaylist /\ addOk)])
              /\ pc' = AfterPlaylistName(j, Len(names),
                                            playlist_id # NoPlaylist /\ addOk)
    /\ j' = j + 1
    /\ status' = [status EXCEPT ![i] = "AssigningPlaylists"]
    /\ UNCHANGED <<videos, youtube_service, fs, i, uploaded, renamed_to,
                   video_id, retry, waits, errs, chunks, last_chunk, quota_at,
                   success_count, stats, sleeps, confirm_log, result,
                   summary_printed, otherVars>>

\* faulty variant: a rename that raised turns the record into a failure
C20_RenameStep_FailureCounts ==
    /\ pc = "rename"
    /\ \E osOk \in BOOLEAN :
          LET r == _rename_uploaded_file(fs, videos[i], osOk)
          IN  /\ fs' = r.files
              /\ renamed_to' = [renamed_to EXCEPT ![i] = r.new_name]
              /\ IF r.new_name = RenameError
                 THEN /\ success_count' = success_count
                      /\ stats' = [stats EXCEPT !.failed_uploads = @ + 1]
                      /\ status' = [status EXCEPT ![i] = "Failed"]
                 ELSE /\ success_count' = success_count + 1
                      /\ stats' = [stats EXCEPT !.uploaded_videos = @ + 1]
                      /\ status' = [status EXCEPT ![i] = "Done"]
    /\ effects' = [effects EXCEPT !.rename = TRUE]
    /\ pc' = AfterRecord(i, Len(videos))
    /\ UNCHANGED <<videos, youtube_service, playlist_cache,
                   playlist_cache_loaded, remote_playlists, i, uploaded,
                   video_id, retry, waits, errs, chunks, last_chunk, quota_at,
                   j, successful_additions, assign_log, sleeps, confirm_log,
                   result,
                   summary_printed, otherVars>>

\* upload_videos lines 783-797: rename, then count the success
RenameStep ==
    /\ pc = "rename"
    /\ \E osOk \in BOOLEAN :
          LET r == _rename_uploaded_file(fs, videos[i], osOk)
          IN  /\ fs' = r.files
              /\ renamed_to' = [renamed_to EXCEPT ![i] = r.new_name]
    /\ effects' = [effects EXCEPT !.rename = TRUE]
    /\ success_count' = success_count + 1
    /\ stats' = [stats EXCEPT !.uploaded_videos = @ + 1]
    /\ status' = [status EXCEPT ![i] = "Done"]
    /\ pc' = AfterRecord(i, Len(videos))
    /\ UNCHANGED <<videos, youtube_service, playlist_cache,
                   playlist_cache_loaded, remote_playlists, i, uploaded,
                   video_id, retry, waits, errs, chunks, last_chunk, quota_at,
                   j, successful_additions, assign_log, sleeps, confirm_log,
                   result,
                   summary_printed, otherVars>>

\* upload_videos lines 795-797 and 768: time.sleep(10), then the loop binds
\* the next record; what the body kept about the previous record is gone
Pause ==
    /\ pc = "pause"
    /\ sleeps' = sleeps + 1
    /\ i' = i + 1
    /\ pc' = "loop"
    /\ video_id' = None
    /\ j' = 0
    /\ successful_additions' = 0
    /\ assign_log' = <<>>
    /\ UNCHANGED <<videos, youtube_service, playlist_cache,
                   playlist_cache_loaded, remote_playlists, fs, status,
                   uploaded, renamed_to, retry, waits, errs, chunks,
                   last_chunk, quota_at, success_count, stats, confirm_log,
                   effects, result,
                   summary_printed, otherVars>>

\* upload_videos lines 804-806
Summary ==
    /\ pc = "summary"
    /\ summary_printed' = TRUE
    /\ result' = (success_count > 0)
    /\ pc' = "done"
    /\ UNCHANGED <<videos, youtube_service, playlist_cache,
                   playlist_cache_loaded, remote_playlists, fs, i, status,
                   uploaded, renamed_to, video_id, retry, waits, errs, chunks,
                   last_chunk, quota_at, j, successful_additions, assign_log,
                   success_count, stats, sleeps, confirm_log, effects,
                   otherVars>>

Next ==
    \/ UploadVideosEntry
    \/ LoadPlaylistCache
    \/ ConfirmUpload
    \/ StartUpload
    \/ NextChunk
    \/ HandleUploadResult
    \/ AddToPlaylistStep
    \/ RenameStep
    \/ Pause
    \/ Summary

Spec == Init /\ [][Next]_vars

(* ------------------------- SpecResolver -------------------------------- *)
Lineages == UNION {[1..n -> FolderNames] : n \in 1..MaxDepth}

InitResolver ==
    /\ pc = "idle"
    /\ IdleUpload
    /\ IdleService
    /\ fs = {}
    /\ folder_structure \in Lineages
    /\ playlist_info = NoInfo
    /\ rpc = "call"
    /\ IdleMain
    /\ IdleScan
    /\ IdleClassifier
    /\ IdleCache
    /\ IdleNormalizer
    /\ IdleTransfer

\* a call of _determine_playlists(folder_structure)
DeterminePlaylists ==
    /\ rpc = "call"
    /\ playlist_info' = _determine_playlists(folder_structure)
    /\ rpc' = "returned"
    /\ UNCHANGED <<folder_structure, uploadVars, mainVars, scanVars,
                   classifierVars, normalizerVars,
                   transferVars, cacheVars>>

NextResolver == DeterminePlaylists

SpecResolver == InitResolver /\ [][NextResolver]_vars

(* ------------------------------ classifier ----------------------------- *)
SUPPORTED_FORMATS ==
    { <<".","m","p","4">>,
      <<".","a","v","i">>,
      <<".","m","o","v">>,
      <<".","m","k","v">>,
      <<".","w","e","b","m">>,
      <<".","f","l","v">>,
      <<".","a","a","c">>,
      <<".","m","p","3">>,
      <<".","w","a","v">>,
      <<".","m","4","a">> }

\* what str.lower does to the letters A-Z
UpperToLower ==
    [A |-> "a", B |-> "b", C |-> "c", D |-> "d", E |-> "e", F |-> "f",
     G |-> "g", H |-> "h", I |-> "i", J |-> "j", K |-> "k", L |-> "l",
     M |-> "m", N |-> "n", O |-> "o", P |-> "p", Q |-> "q", R |-> "r",
     S |-> "s", T |-> "t", U |-> "u", V |-> "v", W |-> "w", X |-> "x",
     Y |-> "y", Z |-> "z"]

\* str.lower
Lower(s) ==
    [k \in 1..Len(s) |->
        IF s[k] \in DOMAIN UpperToLower THEN UpperToLower[s[k]] ELSE s[k]]

\* Path.suffix: the name from its last dot on, empty when there is no dot or
\* the last dot is the first or the last character
PathSuffix(name) ==
    LET dots == {k \in 1..Len(name) : name[k] = "."}
    IN  IF dots = {} THEN <<>>
        ELSE LET k == SetMax(dots)
             IN  IF k > 1 /\ k < Len(name) THEN SubSeq(name, k, Len(name))
                 ELSE <<>>

\* any(name.startswith(prefix) for prefix in VIDEO_PREFIXES)
HasTypePrefix(name) ==
    \E k \in 1..Len(VIDEO_PREFIXES) : StartsWith(name, VIDEO_PREFIXES[k])

\* faulty variant: the extension is not looked at
C12_is_video_file_AnyExtension(filename) ==
    HasTypePrefix(filename) /\ ~StartsWith(filename, UPLOADED_PREFIX)

\* _is_video_file: the test for files of plain directories
_is_video_file(filename) ==
    IF Lower(PathSuffix(filename)) \notin SUPPORTED_FORMATS THEN FALSE
    ELSE LET has_prefix == HasTypePrefix(filename)
             already_uploaded == StartsWith(filename, UPLOADED_PREFIX)
         IN  has_prefix /\ ~already_uploaded

(* ------------------------- SpecClassifier ------------------------------ *)
\* file names are put together from a start, a stem and an ending
NameStarts ==
    {VIDEO_PREFIXES[k] : k \in 1..Len(VIDEO_PREFIXES)}
        \cup {<<>>, UPLOADED_PREFIX, <<"M","e","r","g","e","d","_">>, UPLOADED_PREFIX \o Str_merged}
NameStems == {<<"X">>, <<"a",".","b">>}
NameEndings ==
    SUPPORTED_FORMATS \cup {<<".","M","P","4">>, <<".","M","k","v">>, <<".","t","x","t">>, <<>>, <<".">>}

InitClassifier ==
    /\ pc = "idle"
    /\ IdleUpload
    /\ IdleService
    /\ fs = {}
    /\ IdleResolver
    /\ IdleMain
    /\ IdleScan
    /\ IdleCache
    /\ \E p \in NameStarts, s \in NameStems, e \in NameEndings :
          /\ built_from = [prefix |-> p, stem |-> s, ext |-> e]
          /\ file_name = p \o s \o e
    /\ eligible = FALSE
    /\ was_eligible = FALSE
    /\ cls_pc = "call"
    /\ IdleNormalizer
    /\ IdleTransfer

\* a call of _is_video_file on file_name
IsVideoFile ==
    /\ cls_pc \in {"call", "marked"}
    /\ eligible' = _is_video_file(file_name)
    /\ was_eligible' = IF cls_pc = "call" THEN eligible' ELSE was_eligible
    /\ cls_pc' = IF cls_pc = "call" THEN "classified" ELSE "reclassified"
    /\ UNCHANGED <<file_name, built_from, pc, uploadVars, resolverVars,
                   mainVars, scanVars, normalizerVars,
                   transferVars, cacheVars>>

\* the processed marker is put in front of the name, as the else branch of
\* _rename_uploaded_file does
PrependMarker ==
    /\ cls_pc = "classified"
    /\ file_name' = UPLOADED_PREFIX \o file_name
    /\ built_from' = [built_from EXCEPT !.prefix = UPLOADED_PREFIX \o @]
    /\ cls_pc' = "marked"
    /\ UNCHANGED <<eligible, was_eligible, pc, uploadVars, resolverVars,
                   mainVars, scanVars, normalizerVars,
                   transferVars, cacheVars>>

NextClassifier ==
    \/ IsVideoFile
    \/ PrependMarker

SpecClassifier == InitClassifier /\ [][NextClassifier]_vars

(* ------------------------------- scanner ------------------------------- *)
\* most files of the tree given to find_videos in SpecScan
MaxFiles == 2

Str_SPIEL_AUFNAHMEN == <<"S","P","I","E","L"," ","A","U","F","N","A","H","M","E","N">>
Str_WITZIGE_MOMENTE == <<"W","I","T","Z","I","G","E"," ","M","O","M","E","N","T","E">>
Str_GESCHNITTE_MOMENTE == <<"G","E","S","C","H","N","I","T","T","E"," ","M","O","M","E","N","T","E">>
MAIN_FOLDERS == <<Str_SPIEL_AUFNAHMEN, Str_WITZIGE_MOMENTE, Str_GESCHNITTE_MOMENTE>>

\* p is q or a directory above q
IsPrefixPath(p, q) == Len(p) <= Len(q) /\ SubSeq(q, 1, Len(p)) = p

\* the if/elif chain that turns a prefix into video_type
TypeOfName(name) ==
    IF StartsWith(name, Str_merged) THEN "merged"
    ELSE IF StartsWith(name, Str_onlymic) THEN "onlymic"
    ELSE IF StartsWith(name, Str_onlydesktop) THEN "onlydesktop"
    ELSE "unmergable"

\* _is_upload_folder
_is_upload_folder(folder_name) ==
    LET has_upload_prefix == HasTypePrefix(folder_name)
        already_processed == StartsWith(folder_name, UPLOADED_PREFIX)
    IN  has_upload_prefix /\ ~already_processed

\* faulty variant: the processed marker is not looked at
C11_is_supported_video_format_NoMarker(filename) ==
    Lower(PathSuffix(filename)) \in SUPPORTED_FORMATS

\* _is_supported_video_format: the test for files inside an upload folder
_is_supported_video_format(filename) ==
    IF Lower(PathSuffix(filename)) \notin SUPPORTED_FORMATS THEN FALSE
    ELSE LET already_uploaded == StartsWith(filename, UPLOADED_PREFIX)
         IN  ~already_uploaded

\* faulty variant: the type prefix stays in the lineage
C23_CleanFolderName_Keep(folder_name) == folder_name

\* clean_folder_name: the folder name without its type prefix
CleanFolderName(folder_name) ==
    LET k == FirstPrefix(folder_name, 1)
    IN  IF k # 0
        THEN SubSeq(folder_name, Len(VIDEO_PREFIXES[k]) + 1, Len(folder_name))
        ELSE folder_name

\* the fields of video_info that depend on where the file was found; title,
\* record_date, the sizes and playlist_info are functions of these
ScanRecord(file, lineage, video_type, from_upload_folder) ==
    [file_path          |-> file,
     filename           |-> file.name,
     video_type         |-> video_type,
     folder_structure   |-> lineage,
     from_upload_folder |-> from_upload_folder]

\* faulty variant: the type is taken from the file's own name
C13_scan_upload_folder_FileType(files, folder_path, current_path) ==
    LET folder_name == folder_path[Len(folder_path)]
        folder_path_structure == current_path \o <<CleanFolderName(folder_name)>>
    IN  { ScanRecord(item,
                     folder_path_structure
                         \o SubSeq(item.dir, Len(folder_path) + 1, Len(item.dir)),
                     TypeOfName(item.name), TRUE) :
            item \in {f \in files : /\ IsPrefixPath(folder_path, f.dir)
                                    /\ _is_supported_video_format(f.name)} }

\* _scan_upload_folder: folder_path.rglob('*') visits every file below the
\* folder once; the records are given as a set, their order is the order
\* of the directory listing
_scan_upload_folder(files, folder_path, current_path) ==
    LET folder_name == folder_path[Len(folder_path)]
        video_type == TypeOfName(folder_name)
        folder_path_structure == current_path \o <<CleanFolderName(folder_name)>>
    IN  { ScanRecord(item,
                     folder_path_structure
                         \o SubSeq(item.dir, Len(folder_path) + 1, Len(item.dir)),
                     video_type, TRUE) :
            item \in {f \in files : /\ IsPrefixPath(folder_path, f.dir)
                                    /\ _is_supported_video_format(f.name)} }

RECURSIVE _scan_folder_recursive(_, _, _)
\* _scan_folder_recursive: the files of folder_path that pass _is_video_file,
\* and for each sub-directory either the upload-folder scan or the recursion
_scan_folder_recursive(files, folder_path, current_path) ==
    LET below == {f \in files : /\ IsPrefixPath(folder_path, f.dir)
                               /\ Len(f.dir) > Len(folder_path)}
        subdirs == {f.dir[Len(folder_path) + 1] : f \in below}
    IN  { ScanRecord(item, current_path, TypeOfName(item.name), FALSE) :
            item \in {f \in files : /\ f.dir = folder_path
                                    /\ _is_video_file(f.name)} }
        \cup UNION { IF _is_upload_folder(d)
                     THEN _scan_upload_folder(files, folder_path \o <<d>>,
                                              current_path)
                     ELSE _scan_folder_recursive(files, folder_path \o <<d>>,
                                                 current_path \o <<d>>) :
                     d \in subdirs }

\* find_videos: the loop over MAIN_FOLDERS below recordings_path
find_videos(files) ==
    UNION { _scan_folder_recursive(files, <<MAIN_FOLDERS[k]>>, <<MAIN_FOLDERS[k]>>) :
              k \in 1..Len(MAIN_FOLDERS) }

(* ----------------------------- SpecScan -------------------------------- *)
Str_G == <<"G">>
Str_merged_A == Str_merged \o <<"A">>
Str_onlymic_B == Str_onlymic \o <<"B">>
Str_uploaded_C == UPLOADED_PREFIX \o <<"C">>
Str_unmergable_D == Str_unmergable \o <<"D">>
Str_Other == <<"O","t","h","e","r">>

\* directories of the tree below recordings_path, with what the scan is to
\* make of them: upload_folder is the upload folder the directory is or lies
\* in (empty when there is none), scanned is FALSE outside MAIN_FOLDERS
ScanDirs ==
    { [path |-> <<Str_SPIEL_AUFNAHMEN>>,
       scanned |-> TRUE, upload_folder |-> <<>>, folder_type |-> "none"],
      [path |-> <<Str_SPIEL_AUFNAHMEN, Str_G>>,
       scanned |-> TRUE, upload_folder |-> <<>>, folder_type |-> "none"],
      [path |-> <<Str_SPIEL_AUFNAHMEN, Str_merged_A>>,
       scanned |-> TRUE, upload_folder |-> Str_merged_A, folder_type |-> "merged"],
      [path |-> <<Str_SPIEL_AUFNAHMEN, Str_merged_A, Str_onlymic_B>>,
       scanned |-> TRUE, upload_folder |-> Str_merged_A, folder_type |-> "merged"],
      [path |-> <<Str_SPIEL_AUFNAHMEN, Str_uploaded_C>>,
       scanned |-> TRUE, upload_folder |-> <<>>, folder_type |-> "none"],
      [path |-> <<Str_SPIEL_AUFNAHMEN, Str_G, Str_unmergable_D>>,
       scanned |-> TRUE, upload_folder |-> Str_unmergable_D,
       folder_type |-> "unmergable"],
      [path |-> <<Str_Other>>,
       scanned |-> FALSE, upload_folder |-> <<>>, folder_type |-> "none"] }

\* file names of the tree, with what they are: extension on the allow-list,
\* processed marker in front, type prefix in front
ScanNames ==
    { [name |-> Name_merged_X, supported |-> TRUE, marked |-> FALSE, prefixed |-> TRUE],
      [name |-> Name_onlymic_X, supported |-> TRUE, marked |-> FALSE, prefixed |-> TRUE],
      [name |-> Name_X, supported |-> TRUE, marked |-> FALSE, prefixed |-> FALSE],
      [name |-> Name_uploaded_X, supported |-> TRUE, marked |-> TRUE, prefixed |-> FALSE],
      [name |-> Str_merged \o <<"X",".","t","x","t">>, supported |-> FALSE, marked |-> FALSE, prefixed |-> TRUE],
      [name |-> <<"X",".","M","K","V">>, supported |-> TRUE, marked |-> FALSE, prefixed |-> FALSE] }

ScanPaths == {[dir |-> d.path, name |-> n.name] : d \in ScanDirs, n \in ScanNames}

\* the trees of at most MaxFiles files
Trees ==
    UNION { {{q[k] : k \in 1..n} : q \in [1..n -> ScanPaths]} : n \in 0..MaxFiles }

InitScan ==
    /\ pc = "idle"
    /\ IdleUpload
    /\ IdleService
    /\ IdleResolver
    /\ IdleMain
    /\ IdleClassifier
    /\ IdleCache
    /\ fs \in Trees
    /\ found = {}
    /\ renamed = {}
    /\ spc = "start"
    /\ IdleNormalizer
    /\ IdleTransfer

\* a call of find_videos: the first one, or one after files were renamed
FindVideos ==
    /\ spc \in {"start", "found"}
    /\ found' = find_videos(fs)
    /\ spc' = IF spc = "start" THEN "found" ELSE "rescanned"
    /\ UNCHANGED <<fs, renamed>>
    /\ UNCHANGED <<pc, videos, youtube_service, playlist_cache,
                   playlist_cache_loaded, remote_playlists, i, status,
                   uploaded, renamed_to, video_id, retry, waits, errs, chunks,
                   last_chunk, quota_at, j, successful_additions, assign_log,
                   success_count, stats, sleeps, confirm_log, effects, result,
                   summary_printed, resolverVars, mainVars, classifierVars, normalizerVars,
                   transferVars,
                   cacheVars>>

\* _rename_uploaded_file for one record of the first scan, as upload_videos
\* calls it after that record's upload
RenameFound ==
    /\ spc = "found"
    /\ \E video \in found : \E osOk \in BOOLEAN :
          LET r == _rename_uploaded_file(fs, video, osOk)
          IN  /\ video.file_path \in fs
              /\ fs' = r.files
              /\ renamed' = IF r.new_name = RenameError THEN renamed
                            ELSE renamed \cup
                                 {[from |-> video.file_path,
                                   to   |-> [dir  |-> video.file_path.dir,
                                             name |-> r.new_name]]}
    /\ UNCHANGED <<found, spc>>
    /\ UNCHANGED <<pc, videos, youtube_service, playlist_cache,
                   playlist_cache_loaded, remote_playlists, i, status,
                   uploaded, renamed_to, video_id, retry, waits, errs, chunks,
                   last_chunk, quota_at, j, successful_additions, assign_log,
                   success_count, stats, sleeps, confirm_log, effects, result,
                   summary_printed, resolverVars, mainVars, classifierVars, normalizerVars,
                   transferVars,
                   cacheVars>>

NextScan ==
    \/ FindVideos
    \/ RenameFound

SpecScan == InitScan /\ [][NextScan]_vars

(* --------------------------------- main -------------------------------- *)
\* faulty variant: the result of upload_videos is not looked at
C16_ExitStatus_AlwaysZero(success) == 0

\* main, lines 1341-1349: the exit status after upload_videos has returned
ExitStatus(success) == IF success THEN 0 ELSE 1

\* faulty variant: the preview flag is not looked at
C18_AfterFindVideos_IgnorePreview(vids, previewFlag) ==
    IF vids = <<>> THEN "exit_0" ELSE "authenticate"

\* main, lines 1312-1334: where main goes once find_videos has returned
AfterFindVideos(vids, previewFlag) ==
    IF vids = <<>> THEN "exit_0"
    ELSE IF previewFlag THEN "preview_mode"
    ELSE "authenticate"

\* sys.exit(code)
Exit(code) == pc' = "exited" /\ exit_code' = code

FilesOf(batch) == {batch[k].file_path : k \in DOMAIN batch}

\* positions inside main's try block
InsideTry ==
    {"find_videos", "preview_mode", "authenticate", "upload_videos",
     "load_cache", "confirm", "loop", "next_chunk", "upload_returned",
     "add_to_playlist", "rename", "pause", "summary", "done"}

(* ------------------------------ SpecMain ------------------------------- *)
InitMain ==
    /\ pc = "main"
    /\ IdleUpload
    /\ IdleService
    /\ IdleResolver
    /\ IdleScan
    /\ IdleClassifier
    /\ IdleCache
    /\ preview \in BOOLEAN
    /\ recordings_path \in {"unset", "missing", "exists"}
    /\ \E batch \in Batches :
          fs = IF recordings_path = "exists" THEN FilesOf(batch) ELSE {}
    /\ exit_code = NoExit
    /\ interrupted_at = NoInterrupt
    /\ main_log = <<>>
    /\ IdleNormalizer
    /\ IdleTransfer

\* main, lines 1290-1301: the two checks of the recordings path
MainValidatePath ==
    /\ pc = "main"
    /\ IF recordings_path = "unset" THEN Exit(1)
       ELSE IF recordings_path = "missing" THEN Exit(1)
       ELSE pc' = "find_videos" /\ exit_code' = exit_code
    /\ UNCHANGED <<uploadState, resolverVars, scanVars, classifierVars, normalizerVars,
                   transferVars,
                   cacheVars, preview, recordings_path, interrupted_at,
                   main_log>>

\* main, lines 1310-1317: find_videos returns the records of the files on
\* disk in the order of the directory listing; scanOk is FALSE when the
\* scan raises, which main's except Exception turns into exit status 1
MainFindVideos ==
    /\ pc = "find_videos"
    /\ \E scanOk \in BOOLEAN :
          IF scanOk
          THEN /\ main_log' = Append(main_log, "scan_ok")
               /\ videos' \in {b \in Batches : FilesOf(b) = fs}
               /\ status' = [k \in DOMAIN videos' |-> "Pending"]
               /\ uploaded' = [k \in DOMAIN videos' |-> FALSE]
               /\ renamed_to' = [k \in DOMAIN videos' |-> NoName]
               /\ IF AfterFindVideos(videos', preview) = "exit_0"
                  THEN Exit(0)
                  ELSE /\ pc' = AfterFindVideos(videos', preview)
                       /\ exit_code' = exit_code
          ELSE /\ main_log' = Append(main_log, "scan_error")
               /\ Exit(1)
               /\ UNCHANGED <<videos, status, uploaded, renamed_to>>
    /\ UNCHANGED <<youtube_service, playlist_cache, playlist_cache_loaded,
                   remote_playlists, fs, i, video_id, retry, waits, errs,
                   chunks, last_chunk, quota_at, j, successful_additions,
                   assign_log, success_count, stats, sleeps, confirm_log,
                   effects, result, summary_printed, resolverVars, scanVars,
                   classifierVars, normalizerVars,
                   transferVars, cacheVars, preview, recordings_path,
                   interrupted_at>>

\* main, lines 1319-1331: preview mode prints the records, tests the
\* authentication and exits
MainPreview ==
    /\ pc = "preview_mode"
    /\ \E authOk \in BOOLEAN :
          /\ youtube_service' = authOk
          /\ main_log' = Append(main_log, IF authOk THEN "auth_ok" ELSE "auth_failed")
          /\ Exit(IF authOk THEN 0 ELSE 1)
    /\ UNCHANGED <<videos, playlist_cache, playlist_cache_loaded,
                   remote_playlists, fs, i, status, uploaded, renamed_to,
                   video_id, retry, waits, errs, chunks, last_chunk, quota_at,
                   j, successful_additions, assign_log, success_count, stats,
                   sleeps, confirm_log, effects, result, summary_printed,
                   resolverVars, scanVars, classifierVars, normalizerVars,
                   transferVars, cacheVars, preview,
                   recordings_path, interrupted_at>>

\* main, lines 1333-1339: preview_videos, then authenticate_youtube
MainAuthenticate ==
    /\ pc = "authenticate"
    /\ \E authOk \in BOOLEAN :
          /\ youtube_service' = authOk
          /\ main_log' = Append(main_log, IF authOk THEN "auth_ok" ELSE "auth_failed")
          /\ IF authOk THEN pc' = "upload_videos" /\ exit_code' = exit_code
             ELSE Exit(1)
    /\ UNCHANGED <<videos, playlist_cache, playlist_cache_loaded,
                   remote_playlists, fs, i, status, uploaded, renamed_to,
                   video_id, retry, waits, errs, chunks, last_chunk, quota_at,
                   j, successful_additions, assign_log, success_count, stats,
                   sleeps, confirm_log, effects, result, summary_printed,
                   resolverVars, scanVars, classifierVars, normalizerVars,
                   transferVars, cacheVars, preview,
                   recordings_path, interrupted_at>>

\* main, lines 1341-1349: upload_videos has returned
MainExit ==
    /\ pc = "done"
    /\ Exit(ExitStatus(result))
    /\ UNCHANGED <<uploadState, resolverVars, scanVars, classifierVars, normalizerVars,
                   transferVars,
                   cacheVars, preview, recordings_path, interrupted_at,
                   main_log>>

\* main, lines 1351-1353: a KeyboardInterrupt raised anywhere inside the try
\* block is no Exception, so no handler of the class catches it; it unwinds
\* to main, which prints the abort message and exits with status 0; the
\* locals of the unwound calls are gone
KeyboardInterrupt ==
    /\ pc \in InsideTry
    /\ interrupted_at' = pc
    /\ Exit(0)
    /\ i' = 0
    /\ video_id' = None
    /\ retry' = 0
    /\ waits' = <<>>
    /\ errs' = 0
    /\ chunks' = 0
    /\ last_chunk' = NoChunk
    /\ j' = 0
    /\ successful_additions' = 0
    /\ assign_log' = <<>>
    /\ UNCHANGED <<videos, youtube_service, playlist_cache,
                   playlist_cache_loaded, remote_playlists, fs, status,
                   uploaded, renamed_to, quota_at, success_count, stats,
                   sleeps, confirm_log, effects, result, summary_printed,
                   resolverVars, scanVars, classifierVars, normalizerVars,
                   transferVars, cacheVars, preview,
                   recordings_path, main_log>>

NextMain ==
    \/ MainValidatePath
    \/ MainFindVideos
    \/ MainPreview
    \/ MainAuthenticate
    \/ UploadVideosEntry
    \/ LoadPlaylistCache
    \/ ConfirmUpload
    \/ StartUpload
    \/ NextChunk
    \/ HandleUploadResult
    \/ AddToPlaylistStep
    \/ RenameStep
    \/ Pause
    \/ Summary
    \/ MainExit
    \/ KeyboardInterrupt

SpecMain == InitMain /\ [][NextMain]_vars

(* ----------------------------- SpecCache ------------------------------- *)
\* playlists of the account, some with the same title
CacheRemoteStarts ==
    { {}, {<<"GameX", 1>>}, {<<"GameX", 1>>, <<"GameX", 2>>},
      {<<"GameX", 1>>, <<"GameX", 2>>, <<"BUG", 1>>} }

\* names _get_or_create_playlist is asked for
CacheNames == {"GameX", "BUG", MAIN_FOLDER}

InitCache ==
    /\ pc = "idle"
    /\ IdleUpload
    /\ fs = {}
    /\ IdleResolver
    /\ IdleMain
    /\ IdleScan
    /\ IdleClassifier
    /\ youtube_service \in BOOLEAN
    /\ playlist_cache = <<>>
    /\ playlist_cache_loaded = FALSE
    /\ remote_playlists \in CacheRemoteStarts
    /\ list_items = <<>>
    /\ pending_name = None
    /\ created = {}
    /\ cpc = "idle"
    /\ IdleNormalizer
    /\ IdleTransfer

\* _load_playlist_cache up to its for-loop (lines 171-184): the early
\* return, or the list request, which may raise
BeginLoad ==
    IF playlist_cache_loaded \/ ~youtube_service
    THEN /\ list_items' = <<>>
         /\ cpc' = "loaded"
         /\ UNCHANGED playlist_cache_loaded
    ELSE \E listOk \in BOOLEAN, items \in ListResponses(remote_playlists) :
            IF listOk
            THEN /\ list_items' = items
                 /\ cpc' = "store"
                 /\ UNCHANGED playlist_cache_loaded
            ELSE /\ list_items' = <<>>
                 /\ cpc' = "loaded"
                 /\ playlist_cache_loaded' = TRUE

\* a call of _load_playlist_cache, as upload_videos makes it
CallLoadPlaylistCache ==
    /\ cpc = "idle"
    /\ pending_name' = None
    /\ BeginLoad
    /\ UNCHANGED <<playlist_cache, remote_playlists, created>>
    /\ UNCHANGED <<pc, videos, youtube_service, fs, i, status, uploaded,
                   renamed_to, video_id, retry, waits, errs, chunks,
                   last_chunk, quota_at, j, successful_additions, assign_log,
                   success_count, stats, sleeps, confirm_log, effects, result,
                   summary_printed, resolverVars, mainVars, scanVars,
                   classifierVars, normalizerVars,
                   transferVars>>

\* a call of _get_or_create_playlist(playlist_name), which starts with
\* _load_playlist_cache (line 1114)
CallGetOrCreatePlaylist ==
    /\ cpc = "idle"
    /\ \E playlist_name \in CacheNames : pending_name' = playlist_name
    /\ BeginLoad
    /\ UNCHANGED <<playlist_cache, remote_playlists, created>>
    /\ UNCHANGED <<pc, videos, youtube_service, fs, i, status, uploaded,
                   renamed_to, video_id, retry, waits, errs, chunks,
                   last_chunk, quota_at, j, successful_additions, assign_log,
                   success_count, stats, sleeps, confirm_log, effects, result,
                   summary_printed, resolverVars, mainVars, scanVars,
                   classifierVars, normalizerVars,
                   transferVars>>

\* one pass of the for-loop of _load_playlist_cache (lines 187-190)
StoreListItem ==
    /\ cpc = "store"
    /\ list_items # <<>>
    /\ playlist_cache' = Put(playlist_cache, Head(list_items)[1], Head(list_items))
    /\ list_items' = Tail(list_items)
    /\ UNCHANGED <<cpc, pending_name, playlist_cache_loaded, remote_playlists,
                   created>>
    /\ UNCHANGED <<pc, videos, youtube_service, fs, i, status, uploaded,
                   renamed_to, video_id, retry, waits, errs, chunks,
                   last_chunk, quota_at, j, successful_additions, assign_log,
                   success_count, stats, sleeps, confirm_log, effects, result,
                   summary_printed, resolverVars, mainVars, scanVars,
                   classifierVars, normalizerVars,
                   transferVars>>

\* the end of the for-loop of _load_playlist_cache (line 192)
EndLoad ==
    /\ cpc = "store"
    /\ list_items = <<>>
    /\ playlist_cache_loaded' = TRUE
    /\ cpc' = "loaded"
    /\ UNCHANGED <<list_items, pending_name, playlist_cache, remote_playlists,
                   created>>
    /\ UNCHANGED <<pc, videos, youtube_service, fs, i, status, uploaded,
                   renamed_to, video_id, retry, waits, errs, chunks,
                   last_chunk, quota_at, j, successful_additions, assign_log,
                   success_count, stats, sleeps, confirm_log, effects, result,
                   summary_printed, resolverVars, mainVars, scanVars,
                   classifierVars, normalizerVars,
                   transferVars>>

\* _load_playlist_cache has returned: its caller goes on; for
\* _get_or_create_playlist that is the cache lookup and, on a miss, the
\* playlists().insert request (lines 1116-1153); createOk is FALSE when the
\* request raises, as it does without a client
FinishCall ==
    /\ cpc = "loaded"
    /\ IF pending_name = None \/ pending_name \in DOMAIN playlist_cache
       THEN UNCHANGED <<playlist_cache, remote_playlists, created>>
       ELSE \E createOk \in (IF youtube_service THEN BOOLEAN ELSE {FALSE}) :
               LET newId == NewPlaylistId(remote_playlists, pending_name)
               IN  IF createOk
                   THEN /\ remote_playlists' = remote_playlists \cup {newId}
                        /\ playlist_cache' = Put(playlist_cache, pending_name, newId)
                        /\ created' = created \cup {pending_name}
                   ELSE UNCHANGED <<playlist_cache, remote_playlists, created>>
    /\ pending_name' = None
    /\ cpc' = "idle"
    /\ UNCHANGED <<list_items, playlist_cache_loaded>>
    /\ UNCHANGED <<pc, videos, youtube_service, fs, i, status, uploaded,
                   renamed_to, video_id, retry, waits, errs, chunks,
                   last_chunk, quota_at, j, successful_additions, assign_log,
                   success_count, stats, sleeps, confirm_log, effects, result,
                   summary_printed, resolverVars, mainVars, scanVars,
                   classifierVars, normalizerVars,
                   transferVars>>

NextCache ==
    \/ CallLoadPlaylistCache
    \/ CallGetOrCreatePlaylist
    \/ StoreListItem
    \/ EndLoad
    \/ FinishCall

SpecCache == InitCache /\ [][NextCache]_vars

(* --------------------------- title normalizer -------------------------- *)
\* code points outside printable ASCII are written by their number
U_FFFD == "U+FFFD"
U_00C4 == "U+00C4"
U_00D6 == "U+00D6"
U_00DC == "U+00DC"
U_00E4 == "U+00E4"
U_00F6 == "U+00F6"
U_00FC == "U+00FC"
U_00DF == "U+00DF"
U_0308 == "U+0308"

\* [\x00-\x08\x0B\x0C\x0E-\x1F]
ControlChars ==
    { "U+0000", "U+0001", "U+0002", "U+0003", "U+0004", "U+0005", "U+0006",
      "U+0007", "U+0008", "U+000B", "U+000C", "U+000E", "U+000F", "U+0010",
      "U+0011", "U+0012", "U+0013", "U+0014", "U+0015", "U+0016", "U+0017",
      "U+0018", "U+0019", "U+001A", "U+001B", "U+001C", "U+001D", "U+001E",
      "U+001F" }

\* what str.split() splits at and \s matches, of the code points below 128
Whitespace ==
    { " ", "U+0009", "U+000A", "U+000B", "U+000C", "U+000D", "U+001C",
      "U+001D", "U+001E", "U+001F" }

Letters == DOMAIN UpperToLower \cup {UpperToLower[c] : c \in DOMAIN UpperToLower}
Umlauts == {U_00C4, U_00D6, U_00DC, U_00E4, U_00F6, U_00FC, U_00DF}

\* \w: letters, digits and the underscore
WordChars == Letters \cup Umlauts \cup {Digit[k] : k \in 1..10} \cup {"_"}

\* the code points 128..255 that titles are made of here
Latin1High == Umlauts

\* the character classes of the patterns
Cons21 == {"B","C","D","F","G","H","J","K","L","M","N","P","Q","R","S","T",
           "V","W","X","Y","Z"}
Cons17 == {"B","C","D","F","G","K","L","M","N","P","R","S","T","V","W","X","Z"}
Cons10 == {"D","F","G","L","M","N","R","S","T","W"}
Vowels == {"A","E","I","O","U"}
Broken == {U_FFFD, "?"}

\* re.IGNORECASE on a class
IgnoreCase(cls) ==
    cls \cup {UpperToLower[c] : c \in cls \cap DOMAIN UpperToLower}
        \cup {c \in DOMAIN UpperToLower : UpperToLower[c] \in cls}

(* a pattern is a sequence of items: \b, or a character class taken between
   min and max times (greedy); neg marks a class written [^...] *)
WordBoundary == [kind |-> "b"]
One(cls)     == [kind |-> "c", cls |-> cls, neg |-> FALSE, min |-> 1, max |-> 1]
NotOne(cls)  == [kind |-> "c", cls |-> cls, neg |-> TRUE,  min |-> 1, max |-> 1]
Plus(cls)    == [kind |-> "c", cls |-> cls, neg |-> FALSE, min |-> 1, max |-> 1000]
Lit(c)       == One({c})
OneI(cls)    == One(IgnoreCase(cls))
LitI(c)      == One(IgnoreCase({c}))

\* part of a replacement: group k of the match, or a character
Group(k) == [g |-> k, c |-> ""]
Chr(c)   == [g |-> 0, c |-> c]

InClass(ch, item) == IF item.neg THEN ch \notin item.cls ELSE ch \in item.cls

\* \b between s[pos - 1] and s[pos]
IsWordBoundary(s, pos) ==
    LET before == pos > 1 /\ s[pos - 1] \in WordChars
        after  == pos <= Len(s) /\ s[pos] \in WordChars
    IN  before # after

\* how many characters from pos on are in the item's class
RunLength(s, pos, item) ==
    SetMax({n \in 0..(Len(s) - pos + 1) :
               \A m \in 0..(n - 1) : InClass(s[pos + m], item)})

NoMatch == [ok |-> FALSE, ends |-> <<>>]

RECURSIVE MatchItems(_, _, _, _)
RECURSIVE TryLength(_, _, _, _, _)
\* the backtracking match of items k.. at pos: for each item the position
\* after it
MatchItems(s, pos, items, k) ==
    IF k > Len(items) THEN [ok |-> TRUE, ends |-> <<>>]
    ELSE IF items[k].kind = "b"
    THEN IF IsWordBoundary(s, pos)
         THEN LET r == MatchItems(s, pos, items, k + 1)
              IN  [ok |-> r.ok, ends |-> <<pos>> \o r.ends]
         ELSE NoMatch
    ELSE LET run == RunLength(s, pos, items[k])
         IN  TryLength(s, pos, items, k,
                       IF run < items[k].max THEN run ELSE items[k].max)

\* greedy: the longest repetition first, shorter ones on backtracking
TryLength(s, pos, items, k, n) ==
    IF n < items[k].min THEN NoMatch
    ELSE LET r == MatchItems(s, pos + n, items, k + 1)
         IN  IF r.ok THEN [ok |-> TRUE, ends |-> <<pos + n>> \o r.ends]
             ELSE TryLength(s, pos, items, k, n - 1)

\* m.group(k) when every item is its own group
GroupText(s, pos, ends, k) ==
    SubSeq(s, IF k = 1 THEN pos ELSE ends[k - 1], ends[k] - 1)

RECURSIVE Expand(_, _, _, _)
\* the replacement string of one match
Expand(s, pos, ends, template) ==
    IF template = <<>> THEN <<>>
    ELSE (IF Head(template).g # 0
          THEN GroupText(s, pos, ends, Head(template).g)
          ELSE <<Head(template).c>>)
         \o Expand(s, pos, ends, Tail(template))

\* a substitution: pattern, replacement, and for the lambda replacements
\* the group whose length decides whether the match is left as it is;
\* guess marks the replacement by _guess_umlaut_from_context
Rule(items, template) ==
    [items |-> items, template |-> template, limit_group |-> 0, limit |-> 0,
     guess |-> FALSE]
RuleIf(items, template, g, n) ==
    [items |-> items, template |-> template, limit_group |-> g, limit |-> n,
     guess |-> FALSE]
RuleGuess(items) ==
    [items |-> items, template |-> <<>>, limit_group |-> 0, limit |-> 0,
     guess |-> TRUE]

\* pattern in context
Contains(s, p) == Occurrences(s, p) # {}

\* _guess_umlaut_from_context(full_match, before, after)
_guess_umlaut_from_context(before, after) ==
    LET context == before \o after
        ae_patterns == {<<"N","G","T">>, <<"H","N","T">>, <<"L","L","T">>,
                        <<"R","G","T">>, <<"N","D","T">>}
        oe_patterns == {<<"H","R","T">>, <<"R","R","T">>, <<"S","S","T">>,
                        <<"N","I","G">>, <<"G","E","R">>}
        ue_patterns == {<<"C","K","T">>, <<"H","L","E">>, <<"R","C","K">>,
                        <<"S","S","E">>, <<"N","D","E">>}
    IN  IF \E p \in ue_patterns : Contains(context, p)
        THEN before \o <<U_00DC>> \o after
        ELSE IF \E p \in oe_patterns : Contains(context, p)
        THEN before \o <<U_00D6>> \o after
        ELSE IF \E p \in ae_patterns : Contains(context, p)
        THEN before \o <<U_00C4>> \o after
        ELSE before \o <<U_00C4>> \o after

RECURSIVE SubFrom(_, _, _)
\* re.sub from pos on: leftmost matches, not overlapping
SubFrom(rule, s, pos) ==
    IF pos > Len(s) THEN <<>>
    ELSE LET r == MatchItems(s, pos, rule.items, 1)
         IN  IF r.ok
             THEN LET end == r.ends[Len(r.ends)]
                      kept == rule.limit_group # 0 /\
                              Len(GroupText(s, pos, r.ends, rule.limit_group))
                                  > rule.limit
                  IN  (IF kept THEN SubSeq(s, pos, end - 1)
                       ELSE IF rule.guess
                       THEN _guess_umlaut_from_context(
                                GroupText(s, pos, r.ends, 1),
                                GroupText(s, pos, r.ends, 3))
                       ELSE Expand(s, pos, r.ends, rule.template))
                      \o SubFrom(rule, s, end)
             ELSE <<s[pos]>> \o SubFrom(rule, s, pos + 1)

\* re.sub(pattern, replacement, s)
ReSub(rule, s) == SubFrom(rule, s, 1)

RECURSIVE ReSubAll(_, _)
\* the for-loops that apply one substitution after the other
ReSubAll(rules, s) ==
    IF rules = <<>> THEN s ELSE ReSubAll(Tail(rules), ReSub(Head(rules), s))

\* str.count of one character
CountOf(s, c) == Cardinality({k \in 1..Len(s) : s[k] = c})

\* s without the characters of drop
RECURSIVE Without(_, _)
Without(s, drop) ==
    IF s = <<>> THEN <<>>
    ELSE (IF Head(s) \in drop THEN <<>> ELSE <<Head(s)>>) \o Without(Tail(s), drop)

\* text.encode(latin1 / cp1252 / iso-8859-1, errors='ignore')
\*     .decode('utf-8', errors='replace'):
\* code points above 255 are left out by encode; the byte of an umlaut is a
\* UTF-8 lead byte (or no UTF-8 byte at all) that no continuation byte
\* follows, so decode puts U+FFFD in its place
Redecoded(s) ==
    LET encodable == Without(s, {U_FFFD, U_0308})
    IN  [k \in 1..Len(encodable) |->
            IF encodable[k] \in Latin1High THEN U_FFFD ELSE encodable[k]]

\* one pass of the loop over the three encodings (step 1)
EncodingAttempt(s) ==
    IF \E k \in 1..Len(s) : s[k] \in Latin1High
    THEN IF CountOf(Redecoded(s), U_FFFD) < CountOf(s, U_FFFD)
         THEN Redecoded(s) ELSE s
    ELSE s

\* what U+0308 (combining diaeresis) composes with
Diaeresis ==
    [A |-> U_00C4, O |-> U_00D6, U |-> U_00DC,
     a |-> U_00E4, o |-> U_00F6, u |-> U_00FC]

RECURSIVE NFC(_)
\* unicodedata.normalize('NFC', text) (step 2); of the letters titles are
\* made of here only A, O and U compose with a following U+0308
NFC(s) ==
    IF Len(s) < 2 THEN s
    ELSE IF s[1] \in DOMAIN Diaeresis /\ s[2] = U_0308
    THEN <<Diaeresis[s[1]]>> \o NFC(SubSeq(s, 3, Len(s)))
    ELSE <<s[1]>> \o NFC(Tail(s))

\* step 3a
ContextRule == RuleGuess(<<One(Cons21), One(Broken), One(Cons21)>>)

\* step 3b: umlaut_patterns, applied with re.IGNORECASE
umlaut_patterns ==
    << Rule(<<OneI(Cons17), One(Broken),
              OneI({"N","R","T","C","H","D","G","L","M","S"})>>,
            <<Group(1), Chr(U_00C4), Group(3)>>),
       Rule(<<OneI(Cons21), One(Broken), OneI(Cons21), OneI({"E","I"})>>,
            <<Group(1), Chr(U_00C4), Group(3), Group(4)>>),
       Rule(<<LitI("H"), One(Broken), OneI({"N","R","T","L"})>>,
            <<Chr("H"), Chr(U_00C4), Group(3)>>),
       Rule(<<OneI(Cons17), One(Broken), OneI({"N","R","T","L"})>>,
            <<Group(1), Chr(U_00D6), Group(3)>>),
       Rule(<<LitI("H"), One(Broken), OneI({"R","T"})>>,
            <<Chr("H"), Chr(U_00D6), Chr("R")>>),
       Rule(<<OneI(Cons17), One(Broken),
              OneI({"C","K","H","L","N","R","T"})>>,
            <<Group(1), Chr(U_00DC), Group(3)>>),
       Rule(<<LitI("G"), LitI("L"), One(Broken), LitI("C"), LitI("K")>>,
            <<Chr("G"), Chr("L"), Chr(U_00DC), Chr("C"), Chr("K")>>),
       Rule(<<OneI(Cons10), One(Broken),
              OneI({"H","L","N","R","S","T","C","K"})>>,
            <<Group(1), Chr(U_00DC), Group(3)>>) >>

\* step 3c: the substitutions made in every word, in their order
word_patterns ==
    << Rule(<<WordBoundary, Plus(Cons21), Lit("N"), Lit("G"), Lit("T"),
              WordBoundary>>,
            <<Group(2), Chr(U_00C4), Chr("N"), Chr("G"), Chr("T")>>),
       Rule(<<WordBoundary, One(Cons21), Lit("R"), Lit("T"), WordBoundary>>,
            <<Group(2), Chr(U_00C4), Chr("R"), Chr("T")>>),
       Rule(<<WordBoundary, Lit("H"), Plus({"L","N","R","T"}), WordBoundary>>,
            <<Chr("H"), Chr(U_00C4), Group(3)>>),
       Rule(<<WordBoundary, Lit("H"), Plus({"R","T"}), WordBoundary>>,
            <<Chr("H"), Chr(U_00D6), Group(3)>>),
       RuleIf(<<WordBoundary, Plus(Cons17), Plus({"L","N","R","T"}),
                NotOne(Vowels), WordBoundary>>,
              <<Group(2), Chr(U_00D6), Group(3), Group(4)>>, 3, 2),
       Rule(<<WordBoundary, Lit("G"), Lit("L"), Plus({"C","K"}), WordBoundary>>,
            <<Chr("G"), Chr("L"), Chr(U_00DC), Group(4)>>),
       RuleIf(<<WordBoundary, Plus(Cons17), Lit("C"), Lit("K"), WordBoundary>>,
              <<Group(2), Chr(U_00DC), Chr("C"), Chr("K")>>, 2, 3),
       RuleIf(<<WordBoundary, One(Cons10),
                Plus({"H","L","N","R","S","T","C","K"}), WordBoundary>>,
              <<Group(2), Chr(U_00DC), Group(3)>>, 3, 3) >>

RECURSIVE Split(_)
\* str.split(): the words between runs of whitespace
Split(s) ==
    IF s = <<>> THEN <<>>
    ELSE IF Head(s) \in Whitespace THEN Split(Tail(s))
    ELSE LET n == SetMax({m \in 1..Len(s) :
                             \A k \in 1..m : s[k] \notin Whitespace})
         IN  <<SubSeq(s, 1, n)>> \o Split(SubSeq(s, n + 1, Len(s)))

RECURSIVE Join(_)
\* ' '.join(words)
Join(words) ==
    IF words = <<>> THEN <<>>
    ELSE IF Len(words) = 1 THEN words[1]
    ELSE words[1] \o <<" ">> \o Join(Tail(words))

\* step 4: the escape sequences written out as text
unicode_escapes ==
    LET Escape(h1, h2, char) ==
            Rule(<<Lit("\\"), Lit("u"), Lit("d"), Lit("c"), Lit(h1), Lit(h2)>>,
                 <<Chr(char)>>)
    IN  << Escape("c", "4", U_00C4), Escape("e", "4", U_00E4),
           Escape("d", "6", U_00D6), Escape("f", "6", U_00F6),
           Escape("d", "c", U_00DC), Escape("f", "c", U_00FC),
           Escape("d", "f", U_00DF) >>

RECURSIVE CollapseSpaces(_)
\* re.sub(r'\s+', ' ', text)
CollapseSpaces(s) ==
    IF s = <<>> THEN <<>>
    ELSE IF Head(s) \in Whitespace
    THEN <<" ">> \o CollapseSpaces(
             SubSeq(s, 1 + SetMax({m \in 1..Len(s) :
                                      \A k \in 1..m : s[k] \in Whitespace}),
                    Len(s)))
    ELSE <<Head(s)>> \o CollapseSpaces(Tail(s))

\* str.strip()
Strip(s) ==
    LET inked == {k \in 1..Len(s) : s[k] \notin Whitespace}
    IN  IF inked = {} THEN <<>> ELSE SubSeq(s, SetMin(inked), SetMax(inked))

\* step 5
FinalCleanup(s) ==
    Strip(CollapseSpaces(Without(Without(s, {U_FFFD}), ControlChars)))

\* _fix_encoding_issues
_fix_encoding_issues(t) ==
    IF t = <<>> THEN t
    ELSE LET original_text == t
             repaired == NFC(EncodingAttempt(EncodingAttempt(EncodingAttempt(t))))
             patterned == ReSubAll(umlaut_patterns, ReSub(ContextRule, repaired))
             words == Split(patterned)
             repaired_words ==
                 [k \in 1..Len(words) |-> ReSubAll(word_patterns, words[k])]
             cleaned == FinalCleanup(ReSubAll(unicode_escapes, Join(repaired_words)))
         IN  IF cleaned = <<>> \/ 10 * Len(cleaned) < 7 * Len(original_text)
             THEN Strip(CollapseSpaces(Without(original_text, Broken)))
             ELSE cleaned

(* --------------------------- SpecNormalizer ---------------------------- *)
\* longest string given to _fix_encoding_issues
MaxTitleLen == 4

\* the characters titles are made of
TitleChars == {"D", "T", "A", "?", " ", U_FFFD, U_0308}

Titles == UNION {[1..n -> TitleChars] : n \in 0..MaxTitleLen}

InitNormalizer ==
    /\ pc = "idle"
    /\ IdleUpload
    /\ IdleService
    /\ fs = {}
    /\ IdleResolver
    /\ IdleMain
    /\ IdleScan
    /\ IdleClassifier
    /\ IdleCache
    /\ IdleTransfer
    /\ text \in Titles
    /\ once = <<>>
    /\ twice = <<>>
    /\ npc = "call"

\* title = self._fix_encoding_issues(title)
FixEncodingIssues ==
    /\ npc = "call"
    /\ once' = _fix_encoding_issues(text)
    /\ npc' = "once"
    /\ UNCHANGED <<text, twice, uploadVars, resolverVars, mainVars, scanVars,
                   classifierVars, cacheVars, transferVars>>

\* the function applied to its own output
FixEncodingIssuesAgain ==
    /\ npc = "once"
    /\ twice' = _fix_encoding_issues(once)
    /\ npc' = "twice"
    /\ UNCHANGED <<text, once, uploadVars, resolverVars, mainVars, scanVars,
                   classifierVars, cacheVars, transferVars>>

NextNormalizer ==
    \/ FixEncodingIssues
    \/ FixEncodingIssuesAgain

SpecNormalizer == InitNormalizer /\ [][NextNormalizer]_vars

(* ------------------------------ SpecLive ------------------------------- *)
\* a batch of two records, one with two target playlists and one with one
LiveBatch ==
    <<VideoInfo(Dir_game, Name_merged_X, <<MAIN_FOLDER, "GameX">>),
      VideoInfo(Dir_main, Name_onlymic_X, <<MAIN_FOLDER>>)>>

InitLive ==
    /\ Init
    /\ videos = LiveBatch
    /\ remote_playlists = {}

\* upload_videos runs in one thread whose every call returns or raises:
\* a step that can be taken is taken
SpecLive == InitLive /\ [][Next]_vars /\ WF_vars(Next)

(* ----------------------------- SpecAssign ------------------------------ *)
\* lineages the scan can produce: rooted in the category folder, with any
\* directory names below it, the same name more than once included
AssignLineages == {l \in Lineages : l[1] = MAIN_FOLDER}

\* upload_videos at line 777, for a batch of one record: the upload has
\* returned a video id; the playlist cache is as the list call of line 759
\* left it
InitAssign ==
    /\ pc = "upload_returned"
    /\ \E lineage \in AssignLineages :
          videos = <<VideoInfo(lineage, Name_merged_X, lineage)>>
    /\ youtube_service = TRUE
    /\ remote_playlists \in RemoteStarts
    /\ \E listOk \in BOOLEAN, items \in ListResponses(remote_playlists) :
          playlist_cache =
              _load_playlist_cache(<<>>, FALSE, TRUE, listOk, items).cache
    /\ playlist_cache_loaded = TRUE
    /\ fs = {videos[1].file_path}
    /\ i = 1
    /\ status = <<"Uploading">>
    /\ uploaded = <<TRUE>>
    /\ renamed_to = <<NoName>>
    /\ video_id = VideoIdOf(1)
    /\ retry = 0
    /\ waits = <<>>
    /\ errs = 0
    /\ chunks = 0
    /\ last_chunk = Outcome("response", 200, FALSE, VideoIdOf(1))
    /\ quota_at = 0
    /\ j = 0
    /\ successful_additions = 0
    /\ assign_log = <<>>
    /\ success_count = 0
    /\ stats = [uploaded_videos |-> 0, failed_uploads |-> 0]
    /\ sleeps = 0
    /\ confirm_log = <<TRUE>>
    /\ effects = [NoEffects EXCEPT !.video_insert = TRUE]
    /\ result = FALSE
    /\ summary_printed = FALSE
    /\ IdleResolver
    /\ IdleMain
    /\ IdleScan
    /\ IdleClassifier
    /\ IdleCache
    /\ IdleNormalizer
    /\ IdleTransfer

NextAssign ==
    \/ HandleUploadResult
    \/ AddToPlaylistStep
    \/ RenameStep
    \/ Summary

SpecAssign == InitAssign /\ [][NextAssign]_vars

(* ---------------------------- SpecTransfer ----------------------------- *)
\* one call of _upload_single_video, for the first record of a run
InitTransfer ==
    /\ pc = "idle"
    /\ IdleUpload
    /\ youtube_service \in BOOLEAN
    /\ playlist_cache = <<>>
    /\ playlist_cache_loaded = FALSE
    /\ remote_playlists = {}
    /\ fs = {}
    /\ IdleResolver
    /\ IdleMain
    /\ IdleScan
    /\ IdleClassifier
    /\ IdleCache
    /\ IdleNormalizer
    /\ chunk_errs = <<>>
    /\ tpc = "call"

\* _upload_single_video lines 810-832 and 956-958: metadata, MediaFileUpload
\* and the videos().insert request; built is FALSE when one of them raises,
\* as the request does without a client, and the call returns None
BeginTransfer ==
    /\ tpc = "call"
    /\ retry' = 0
    /\ video_id' = None
    /\ \E built \in (IF youtube_service THEN BOOLEAN ELSE {FALSE}) :
          /\ tpc' = IF built THEN "next_chunk" ELSE "returned"
          /\ chunk_errs' = IF built THEN <<0>> ELSE <<>>
    /\ UNCHANGED <<pc, videos, youtube_service, playlist_cache,
                   playlist_cache_loaded, remote_playlists, fs, i, status,
                   uploaded, renamed_to, waits, errs, chunks, last_chunk,
                   quota_at, j, successful_additions, assign_log,
                   success_count, stats, sleeps, confirm_log, effects, result,
                   summary_printed, resolverVars, mainVars, scanVars,
                   classifierVars, cacheVars, normalizerVars>>

\* one pass of the while response is None loop (lines 890-958), with the
\* chunk each retriable error belongs to: a progress-only answer means the
\* chunk went through and the next call sends the next chunk
SendChunk ==
    /\ tpc = "next_chunk"
    /\ \E o \in ChunkOutcomes(1) :
          /\ o.kind = "progress" => chunks < MaxChunks
          /\ last_chunk' = o
          /\ chunks' = IF o.kind = "progress" THEN chunks + 1 ELSE chunks
          /\ errs' = IF TransientFailure(o) THEN errs + 1 ELSE errs
          /\ chunk_errs' =
                IF o.kind = "progress" THEN Append(chunk_errs, 0)
                ELSE IF TransientFailure(o)
                THEN [chunk_errs EXCEPT ![Len(chunk_errs)] = @ + 1]
                ELSE chunk_errs
          /\ retry' = IF IsRetriable(o) THEN retry + 1 ELSE retry
          /\ CASE o.kind = "progress" ->
                    UNCHANGED <<tpc, waits, video_id>>
               [] o.kind = "response" ->
                    /\ waits' = waits
                    /\ video_id' = o.id
                    /\ tpc' = "returned"
               [] o.kind = "HttpError" ->
                    IF HttpErrorBranch(o, retry + 1) = "retry"
                    THEN /\ waits' = Append(waits, Pow2(retry + 1))
                         /\ UNCHANGED <<tpc, video_id>>
                    ELSE /\ waits' = waits
                         /\ tpc' = "returned"
                         /\ UNCHANGED video_id
               [] o.kind = "Exception" ->
                    /\ waits' = waits
                    /\ tpc' = "returned"
                    /\ UNCHANGED video_id
    /\ UNCHANGED <<pc, videos, youtube_service, playlist_cache,
                   playlist_cache_loaded, remote_playlists, fs, i, status,
                   uploaded, renamed_to, quota_at, j, successful_additions,
                   assign_log, success_count, stats, sleeps, confirm_log,
                   effects, result, summary_printed, resolverVars, mainVars,
                   scanVars, classifierVars, cacheVars, normalizerVars>>

NextTransfer ==
    \/ BeginTransfer
    \/ SendChunk

SpecTransfer == InitTransfer /\ [][NextTransfer]_vars

(* ======================= properties of upload_videos =================== *)
Potential(k) == videos[k].playlist_info.potential_playlists
WasRenamed(k) == renamed_to[k] # NoName /\ renamed_to[k] # RenameError
Destination(k) == [dir |-> videos[k].file_path.dir, name |-> renamed_to[k]]

\* C1: once a quota-exhaustion error (HTTP 403 with 'quotaExceeded') has been
\* observed during the upload of one record, no later record of the batch is
\* attempted: every record after it stays Pending.
C1_NoUploadAfterQuota ==
    quota_at # 0 =>
        \A k \in DOMAIN videos : k > quota_at => status[k] = "Pending"

\* C2: a file is renamed only after the upload of that same record returned
\* a video id; as long as a record's upload has not succeeded, and for good
\* when it failed, its file is in place under its original name.
C2_RenameOnlyAfterUpload ==
    /\ \A k \in DOMAIN videos :
          ~uploaded[k] =>
              /\ videos[k].file_path \in fs
              /\ renamed_to[k] = NoName
    /\ \A k \in DOMAIN videos :
          status[k] = "Failed" => ~uploaded[k]
    /\ effects.rename => \E k \in DOMAIN videos : uploaded[k]

C2_Witness ==
    \E a, b \in DOMAIN videos :
        /\ status[a] = "Failed" /\ videos[a].file_path \in fs
        /\ status[b] = "Done" /\ uploaded[b] /\ WasRenamed(b)
        /\ videos[b].file_path \notin fs

\* C3: a non-quota upload failure of one record never aborts the batch: the
\* loop ends only when every record after the failed one has been attempted;
\* with two records, the first failed and the second succeeded, the second
\* file is renamed (unless the rename itself raised) and the first is not.
C3_FailureDoesNotAbortBatch ==
    /\ \A k \in DOMAIN videos :
          (status[k] = "Failed" /\ quota_at # k /\ pc \in {"summary", "done"})
              => \A m \in DOMAIN videos : m > k => status[m] # "Pending"
    /\ (Len(videos) = 2 /\ status[1] = "Failed" /\ status[2] = "Done")
          => /\ videos[1].file_path \in fs
             /\ renamed_to[1] = NoName
             /\ renamed_to[2] # NoName
             /\ renamed_to[2] # RenameError =>
                   /\ videos[2].file_path \notin fs
                   /\ Destination(2) \in fs

C3_Witness ==
    /\ pc = "done"
    /\ Len(videos) = 2
    /\ status[1] = "Failed" /\ quota_at = 0
    /\ status[2] = "Done" /\ WasRenamed(2)
    /\ stats.uploaded_videos = 1 /\ stats.failed_uploads = 1

\* C4: the confirmation prompt is shown once per batch, and when the user
\* declines no record leaves Pending: no video insert, no playlist create, no
\* playlist-membership insert and no rename happens, and the run returns False.
C4_DeclineAbortsRun ==
    /\ Len(confirm_log) <= 1
    /\ pc \in {"loop", "next_chunk", "upload_returned", "add_to_playlist",
               "rename", "pause", "summary"} => Len(confirm_log) = 1
    /\ confirm_log = <<FALSE>> =>
          /\ pc = "done" /\ result = FALSE
          /\ effects = NoEffects
          /\ \A k \in DOMAIN videos :
                /\ status[k] = "Pending"
                /\ videos[k].file_path \in fs
                /\ renamed_to[k] = NoName

C4_Witness ==
    /\ confirm_log = <<FALSE>>
    /\ pc = "done"
    /\ Len(videos) = MaxVideos

(* ===================== properties of the playlist resolver ============= *)
\* C5: for every folder lineage of length >= 1, potential_playlists is the
\* lineage reversed (most specific first, every segment present, the root
\* category last), hence non-empty, and primary_playlist is the last segment.
C5_PotentialPlaylistsReversed ==
    rpc = "returned" =>
        LET n == Len(folder_structure)
            potential == playlist_info.potential_playlists
        IN  /\ Len(potential) = n
            /\ n >= 1
            /\ \A k \in 1..n : potential[k] = folder_structure[n + 1 - k]
            /\ potential[n] = folder_structure[1]
            /\ playlist_info.primary_playlist = folder_structure[n]
            /\ playlist_info.primary_playlist = potential[1]

C5_Witness ==
    /\ rpc = "returned"
    /\ folder_structure = <<MAIN_FOLDER, "GameX", "BUG">>
    /\ playlist_info.potential_playlists = <<"BUG", "GameX", MAIN_FOLDER>>
    /\ playlist_info.primary_playlist = "BUG"

(* ===================== properties of the transfer engine =============== *)
\* C6: when the transport fails with a retriable error (500, 502, 503, 504)
\* k <= 3 times and then answers with the final response, the upload has
\* made exactly k backoff waits, has not given up, and returns the id of
\* that response.
C6_RetryThenSuccess ==
    /\ (pc \in {"next_chunk", "upload_returned"} /\ errs <= 3)
          => /\ Len(waits) = errs
             /\ TransientFailure(last_chunk) => pc = "next_chunk"
    /\ (pc = "upload_returned" /\ last_chunk.kind = "response"
            /\ last_chunk.id # None)
          => /\ errs <= 3
             /\ Len(waits) = errs
             /\ video_id = last_chunk.id
             /\ uploaded[i]

C6_Witness ==
    /\ pc = "upload_returned"
    /\ errs = 2
    /\ waits = <<2, 4>>
    /\ last_chunk.kind = "response"
    /\ video_id = VideoIdOf(i)

\* C7: only HTTP 500/502/503/504 errors are retried; a quota-exhaustion error
\* and every other transport error end the upload of the record at once,
\* without an id, without a retry and without a backoff wait.
C7_OnlyTransientRetried ==
    /\ pc = "next_chunk" =>
          \/ last_chunk.kind \in {"none", "progress"}
          \/ TransientFailure(last_chunk)
    /\ (last_chunk.kind \in {"HttpError", "Exception"}
            /\ ~TransientFailure(last_chunk))
          => /\ pc = "upload_returned"
             /\ video_id = None
             /\ ~uploaded[i]
             /\ retry = errs
             /\ Len(waits) = errs

C7_Witness ==
    /\ pc = "upload_returned"
    /\ QuotaExhausted(last_chunk)
    /\ retry = 0
    /\ waits = <<>>
    /\ video_id = None

\* C8: retries are capped: during the upload of one record at most 3 backoff
\* waits happen, and the 4th retriable error ends the upload without an id,
\* after which the record is Failed.
C8_RetriesCapped ==
    [][ /\ Len(waits') <= 3
        /\ errs' > 3 => (pc' = "upload_returned" /\ video_id' = None)
        /\ errs > 3 => (status'[i] = "Failed" /\ ~uploaded'[i]
                         /\ stats'.failed_uploads = stats.failed_uploads + 1)
      ]_vars

C8_Witness ==
    /\ pc = "upload_returned"
    /\ errs = 4
    /\ waits = <<2, 4, 8>>
    /\ video_id = None

(* ================ properties of playlist assignment and rename ========= *)
\* C9: a failure to resolve, create or add for one playlist name does not
\* stop the others: every name of potential_playlists is attempted, in
\* order, the record is never turned into a failure, it is counted as
\* uploaded and its rename is carried out whatever the assignments did.
C9_PlaylistFailuresIsolated ==
    /\ \A k \in DOMAIN videos : uploaded[k] => status[k] # "Failed"
    /\ pc = "rename" =>
          /\ Len(assign_log) = Len(Potential(i))
          /\ \A m \in 1..Len(assign_log) : assign_log[m].name = Potential(i)[m]
    /\ \A k \in DOMAIN videos :
          status[k] = "Done" =>
              /\ uploaded[k]
              /\ renamed_to[k] # NoName
              /\ renamed_to[k] # RenameError =>
                    /\ videos[k].file_path \notin fs
                    /\ Destination(k) \in fs
              /\ k = i => Len(assign_log) = Len(Potential(i))
    /\ stats.uploaded_videos = Cardinality({k \in DOMAIN videos : status[k] = "Done"})
    /\ success_count = stats.uploaded_videos
    /\ stats.failed_uploads = Cardinality({k \in DOMAIN videos : status[k] = "Failed"})

C9_Witness ==
    /\ i \in DOMAIN videos
    /\ status[i] = "Done"
    /\ Len(assign_log) = 2
    /\ assign_log[1].playlist_id = NoPlaylist
    /\ assign_log[2].playlist_id # NoPlaylist /\ ~assign_log[2].added
    /\ WasRenamed(i)
    /\ stats.uploaded_videos >= 1

\* str.endswith
EndsWith(s, p) == Len(s) >= Len(p) /\ SubSeq(s, Len(s) - Len(p) + 1, Len(s)) = p

\* name is <stem>_<number>.<extension>
HasNumericSuffix(name) ==
    LET parts == RSplitDot(name)
    IN  /\ Len(parts) = 2
        /\ \E c \in 1..9 : EndsWith(parts[1], <<"_">> \o IntToStr(c))

\* C10: a rename never overwrites: each rename moves one file to a name that
\* did not exist, so no file is lost; two files of one directory that map to
\* the same processed name end as two distinct existing files, the later one
\* with a numeric suffix before the extension.
C10_RenameNeverOverwrites ==
    /\ [][fs' # fs =>
            \E old \in fs : \E new \in fs' :
                /\ new \notin fs
                /\ new.dir = old.dir
                /\ fs' = (fs \ {old}) \cup {new}
                /\ Cardinality(fs') = Cardinality(fs)]_vars
    /\ [](\A a, b \in DOMAIN videos :
            (/\ a < b
             /\ WasRenamed(a) /\ WasRenamed(b)
             /\ videos[a].file_path.dir = videos[b].file_path.dir)
            => /\ Destination(a) # Destination(b)
               /\ Destination(a) \in fs
               /\ Destination(b) \in fs
               /\ HasNumericSuffix(renamed_to[b]))

C10_Witness ==
    \E a, b \in DOMAIN videos :
        /\ a < b
        /\ videos[a].filename = Name_merged_X
        /\ videos[b].filename = Name_unmergable_X
        /\ renamed_to[a] = Name_uploaded_X
        /\ renamed_to[b] = Name_uploaded_X_1
        /\ Destination(a) \in fs /\ Destination(b) \in fs

(* ===================== properties of the classifier ==================== *)
\* C12: _is_video_file accepts a name exactly when its extension (compared
\* in lower case, as the code does) is in SUPPORTED_FORMATS, the name starts
\* with one of the four type prefixes and it does not start with
\* 'uploaded_'; a name that was accepted is rejected once 'uploaded_' has
\* been put in front of it.
C12_ClassifierEligibility ==
    /\ cls_pc \in {"classified", "reclassified"} =>
          (eligible <=>
              /\ Lower(built_from.ext) \in SUPPORTED_FORMATS
              /\ \E k \in 1..Len(VIDEO_PREFIXES) :
                    built_from.prefix = VIDEO_PREFIXES[k]
              /\ ~StartsWith(built_from.prefix, UPLOADED_PREFIX))
    /\ (cls_pc = "reclassified" /\ was_eligible) => ~eligible

C12_Witness ==
    /\ cls_pc = "reclassified"
    /\ was_eligible
    /\ ~eligible
    /\ file_name = UPLOADED_PREFIX \o Str_onlydesktop \o <<"a",".","b">> \o <<".","M","P","4">>

(* ======================= properties of the scanner ===================== *)
\* what ScanDirs and ScanNames say about a directory and a file name
DirFact(path) == CHOOSE d \in ScanDirs : d.path = path
NameFact(name) == CHOOSE n \in ScanNames : n.name = name

\* C11: a file that was renamed after its upload is never discovered again:
\* every name _rename_uploaded_file produced for a discovered file, in a
\* plain directory or inside an upload folder, with or without a collision
\* suffix, starts with 'uploaded_', and a find_videos run over the same tree
\* after the renames returns no record for the renamed file.
C11_RenamedNeverFoundAgain ==
    /\ \A r \in renamed :
          /\ StartsWith(r.to.name, UPLOADED_PREFIX)
          /\ r.to \in fs
          /\ r.from \notin fs
    /\ spc = "rescanned" =>
          \A r \in renamed : \A v \in found : v.file_path # r.to

C11_Witness ==
    /\ spc = "rescanned"
    /\ \E a, b \in renamed :
          /\ a.from.name = Name_X /\ a.to.name = Name_uploaded_X
          /\ b.from.name = Name_merged_X /\ b.to.name = Name_uploaded_X_1
          /\ a.to.dir = <<Str_SPIEL_AUFNAHMEN, Str_merged_A>>
          /\ b.to.dir = a.to.dir
    /\ found = {}

InFlight == {"Uploading", "Uploaded", "AssigningPlaylists"}
Finished == {"Done", "Failed"}
Attempted == \E k \in DOMAIN videos : status[k] # "Pending"

\* the steps of one record, in the order upload_videos takes them; Done is
\* set when _rename_uploaded_file has returned
StepOrder ==
    { <<"Pending", "Uploading">>, <<"Uploading", "Uploaded">>,
      <<"Uploading", "Failed">>, <<"Uploaded", "AssigningPlaylists">>,
      <<"AssigningPlaylists", "Done">> }

\* C14: processing is strictly sequential: each record goes through upload,
\* playlist assignment and rename in that order, at most one record is in
\* work at any time (so never two in Uploading), and a record is started
\* only when every record before it is Done (its rename step has returned)
\* or Failed.
C14_StrictlySequential ==
    /\ [](/\ Cardinality({k \in DOMAIN videos : status[k] \in InFlight}) <= 1
          /\ \A k \in DOMAIN videos :
                status[k] # "Pending" =>
                    \A m \in 1..(k - 1) : status[m] \in Finished
          /\ pc \in {"pause", "summary", "done"} =>
                \A k \in DOMAIN videos : status[k] \notin InFlight)
    /\ [][\A k \in DOMAIN videos :
             /\ status'[k] # status[k] => <<status[k], status'[k]>> \in StepOrder
             /\ renamed_to'[k] # renamed_to[k] =>
                    /\ status[k] = "AssigningPlaylists"
                    /\ status'[k] = "Done"]_vars

C14_Witness ==
    /\ pc = "next_chunk"
    /\ i = 2
    /\ status = <<"Done", "Uploading">>
    /\ WasRenamed(1)
    /\ sleeps = 1

\* C15: once upload_videos has gone through the batch and printed the
\* summary, uploaded_videos + failed_uploads is the number of records,
\* uploaded_videos is the number of records whose upload returned an id, and
\* success_count equals uploaded_videos.
C15_SummaryAccounting ==
    summary_printed =>
        /\ stats.uploaded_videos + stats.failed_uploads = Len(videos)
        /\ stats.uploaded_videos = Cardinality({k \in DOMAIN videos : uploaded[k]})
        /\ success_count = stats.uploaded_videos

C15_Witness ==
    /\ summary_printed
    /\ pc = "exited"
    /\ uploaded = <<TRUE, FALSE>>
    /\ stats = [uploaded_videos |-> 1, failed_uploads |-> 1]
    /\ success_count = 1
    /\ exit_code = 0

C17_InterruptBetweenRecords ==
    interrupted_at = "pause" =>
        /\ pc = "exited"
        /\ exit_code = 0
        /\ summary_printed
        /\ \A k \in DOMAIN videos :
              /\ status[k] \in {"Pending", "Done", "Failed"}
              /\ WasRenamed(k) =>
                    /\ Destination(k) \in fs
                    /\ videos[k].file_path \notin fs
        /\ \E k \in DOMAIN videos : status[k] = "Pending"

\* C18: in preview mode, whatever the scan finds and however the
\* authentication ends, no videos().insert, no playlists().insert and no
\* playlistItems().insert is issued and no file is renamed: upload_videos is
\* never entered and the directory tree stays as it was.
C18_PreviewNoMutation ==
    /\ [](preview =>
            /\ effects = NoEffects
            /\ remote_playlists = {}
            /\ pc \in {"main", "find_videos", "preview_mode", "exited"}
            /\ \A k \in DOMAIN videos :
                  /\ status[k] = "Pending"
                  /\ renamed_to[k] = NoName
                  /\ videos[k].file_path \in fs)
    /\ [][preview => (fs' = fs /\ effects' = effects
                        /\ remote_playlists' = remote_playlists)]_vars

C18_Witness ==
    /\ preview
    /\ pc = "exited"
    /\ main_log = <<"scan_ok", "auth_ok">>
    /\ Len(videos) = 2
    /\ exit_code = 0
    /\ effects = NoEffects

\* C20: when the rename after a successful upload raises, the record keeps
\* its outcome: it is Done and counted in uploaded_videos and success_count,
\* not in failed_uploads, its file stays under the old name, and the loop
\* goes on to the pause and the next record.
C20_RenameFailureKeepsSuccess ==
    \A k \in DOMAIN videos :
        renamed_to[k] = RenameError =>
            /\ uploaded[k]
            /\ status[k] = "Done"
            /\ videos[k].file_path \in fs
            /\ stats.uploaded_videos =
                   Cardinality({m \in DOMAIN videos : uploaded[m] /\ status[m] = "Done"})
            /\ success_count = stats.uploaded_videos
            /\ stats.failed_uploads =
                   Cardinality({m \in DOMAIN videos : ~uploaded[m] /\ status[m] = "Failed"})
            /\ (i = k /\ k < Len(videos)) => pc = "pause"
            /\ summary_printed =>
                   \A m \in DOMAIN videos : m > k => status[m] \in Finished

C20_Witness ==
    /\ summary_printed
    /\ Len(videos) = 2
    /\ renamed_to[1] = RenameError
    /\ videos[1].file_path \in fs
    /\ status = <<"Done", "Done">>
    /\ WasRenamed(2)
    /\ stats = [uploaded_videos |-> 2, failed_uploads |-> 0]

(* ===================== properties of the playlist cache ================ *)
\* C19: the playlist cache is written once per name: a name that maps to an
\* id in playlist_cache keeps that id for the rest of the run, under any
\* sequence of _load_playlist_cache and _get_or_create_playlist calls and any
\* list response, also one that holds two playlists with the same title.
C19_CacheWrittenOnce ==
    [][\A n \in DOMAIN playlist_cache :
          /\ n \in DOMAIN playlist_cache'
          /\ playlist_cache'[n] = playlist_cache[n]]_vars

(* =================== properties of the title normalizer ================ *)
\* C21: the title normalizer is idempotent: for every input string x,
\* _fix_encoding_issues(_fix_encoding_issues(x)) equals
\* _fix_encoding_issues(x).
C21_NormalizerIdempotent ==
    npc = "twice" => twice = once

(* ===================== properties of the upload loop =================== *)
InLoopBody == {"loop", "next_chunk", "upload_returned", "add_to_playlist",
               "rename", "pause"}

\* C22: between the upload attempts of any two consecutive records of a
\* batch exactly one pause (time.sleep(10)) takes place, whether the earlier
\* record succeeded or failed, and no pause follows the last record: while
\* record i is in work i - 1 pauses have been made, a pause is made only
\* after a record that is Done or Failed and has a successor, and it is
\* followed by the upload of that successor.
C22_PauseBetweenRecords ==
    /\ [](/\ pc \in InLoopBody => sleeps = i - 1
          /\ pc = "pause" => (i < Len(videos) /\ status[i] \in Finished)
          /\ pc = "summary" => (i = Len(videos) /\ sleeps = Len(videos) - 1)
          /\ summary_printed => sleeps = Len(videos) - 1)
    /\ [][sleeps' # sleeps =>
             /\ pc = "pause"
             /\ sleeps' = sleeps + 1
             /\ i' = i + 1
             /\ pc' = "loop"
             /\ status'[i'] = "Pending"]_vars

C22_Witness ==
    /\ summary_printed
    /\ Len(videos) = 2
    /\ status = <<"Failed", "Done">>
    /\ sleeps = 1

(* ================== properties of the scanner's lineage ================ *)
\* the names of the upload folders of ScanDirs without their type prefix
Stripped(folder_name) ==
    CASE folder_name = Str_merged_A -> <<"A">>
      [] folder_name = Str_unmergable_D -> <<"D">>

\* the lineage the records of a directory inside an upload folder are to
\* carry: the directories above the upload folder, the stripped name, the
\* directories below it
ExpectedLineage(path) ==
    LET upload_folder == DirFact(path).upload_folder
        p == CHOOSE k \in 1..Len(path) : path[k] = upload_folder
    IN  SubSeq(path, 1, p - 1) \o <<Stripped(upload_folder)>>
            \o SubSeq(path, p + 1, Len(path))

\* C23: for a file found in an upload folder, the record's lineage is the
\* lineage of the directory containing the upload folder, followed by the
\* upload folder's name with its type prefix stripped, followed by the
\* file's relative sub-directory segments inside the upload folder (none for
\* a file directly in it); the lineage always starts with the category
\* folder name.
C23_UploadFolderLineage ==
    spc \in {"found", "rescanned"} =>
        \A r \in found :
            /\ r.from_upload_folder <=> DirFact(r.file_path.dir).upload_folder # <<>>
            /\ r.from_upload_folder =>
                  r.folder_structure = ExpectedLineage(r.file_path.dir)
            /\ r.folder_structure[1] = r.file_path.dir[1]
            /\ \E k \in 1..Len(MAIN_FOLDERS) : r.folder_structure[1] = MAIN_FOLDERS[k]

C23_Witness ==
    /\ spc = "found"
    /\ \E r \in found :
          /\ r.file_path.dir = <<Str_SPIEL_AUFNAHMEN, Str_merged_A>>
          /\ r.folder_structure = <<Str_SPIEL_AUFNAHMEN, <<"A">>>>
    /\ \E r \in found :
          /\ r.file_path.dir = <<Str_SPIEL_AUFNAHMEN, Str_merged_A, Str_onlymic_B>>
          /\ r.folder_structure = <<Str_SPIEL_AUFNAHMEN, <<"A">>, Str_onlymic_B>>

\* C24: a directory whose name starts with the processed marker 'uploaded_'
\* is skipped by the scan: no file inside such a directory, whatever its own
\* prefix, yields a record.
C24_ProcessedDirectorySkipped ==
    spc \in {"found", "rescanned"} =>
        \A r \in found :
            \A k \in 1..Len(r.file_path.dir) :
                ~StartsWith(r.file_path.dir[k], UPLOADED_PREFIX)

(* ================= properties of the retry cap per chunk =============== *)
\* C25: the retry cap applies per chunk: a retriable error is retried on the
\* same chunk, and retries spent on an earlier chunk that then succeeded do
\* not count against a later chunk, so an upload whose retriable errors
\* never exceed 3 on any single chunk succeeds: it is given up on a retriable
\* error only when one chunk has failed more than 3 times.
C25_RetryCapPerChunk ==
    (tpc = "returned" /\ TransientFailure(last_chunk)) =>
        \E c \in 1..Len(chunk_errs) : chunk_errs[c] > MAX_RETRIES

(* ================== properties of resolve-or-create ==================== *)
\* C26: resolve-or-create never duplicates an existing playlist:
\* _get_or_create_playlist issues playlists().insert for a name only when the
\* account holds no playlist with that title, for every number of existing
\* playlists and also when the one-time playlist list call failed.
C26_NoDuplicatePlaylist ==
    [][\A new \in remote_playlists' \ remote_playlists :
          ~\E p \in remote_playlists : p[1] = new[1]]_vars

\* C27: within one run at most one playlists().insert succeeds per playlist
\* name: a create succeeds only for the name asked for, which no earlier
\* create of the run was for, and leaves the name in playlist_cache with the
\* new id; a created name keeps its cache entry, a later lookup of it makes
\* no list call and no create and finds the id of an existing playlist; a
\* create that failed leaves playlist_cache as it was.
C27_CreateOncePerName ==
    [][/\ \A new \in remote_playlists' \ remote_playlists :
             /\ new[1] = pending_name
             /\ new[1] \notin created
             /\ new[1] \in created'
             /\ new[1] \in DOMAIN playlist_cache'
             /\ playlist_cache'[new[1]] = new
       /\ \A n \in created :
             /\ n \in DOMAIN playlist_cache /\ n \in DOMAIN playlist_cache'
             /\ playlist_cache'[n] = playlist_cache[n]
             /\ playlist_cache[n] \in remote_playlists
       /\ (cpc = "idle" /\ pending_name' \in created) =>
             /\ cpc' = "loaded"
             /\ list_items' = <<>>
             /\ playlist_cache_loaded' = playlist_cache_loaded
       /\ (cpc = "loaded" /\ pending_name \in created) =>
             UNCHANGED <<remote_playlists, playlist_cache, created>>
       /\ (cpc = "loaded" /\ remote_playlists' = remote_playlists) =>
             playlist_cache' = playlist_cache]_vars

C27_Witness ==
    /\ cpc = "loaded"
    /\ pending_name = "BUG"
    /\ created = {"BUG", MAIN_FOLDER}
    /\ \E p \in remote_playlists : p[1] = "BUG" /\ playlist_cache["BUG"] = p

(* ================= properties of the playlist assignment =============== *)
\* playlists the record's playlistItems().insert went through for
Added == {m \in DOMAIN assign_log : assign_log[m].added}

\* C28: the count of successful playlist additions that _add_to_playlist
\* reports for a record equals the number of target playlists whose
\* membership insert succeeded: a playlist whose playlistItems().insert
\* failed is not counted.
C28_AdditionsCounted ==
    pc \in {"rename", "summary", "done"} =>
        successful_additions = Cardinality(Added)

\* C29: for every uploaded record and every lineage, one in which a folder
\* name occurs more than once included, the video is inserted into each
\* target playlist at most once: no two playlistItems().insert calls of one
\* record carry the same playlist id.
C29_InsertedOncePerPlaylist ==
    \A a, b \in DOMAIN assign_log :
        (a # b /\ assign_log[a].playlist_id # NoPlaylist
               /\ assign_log[b].playlist_id # NoPlaylist) =>
            assign_log[a].playlist_id # assign_log[b].playlist_id

(* ======================= termination of the upload ===================== *)
\* C30: every upload attempt terminates: when each next_chunk call returns
\* or raises and the final response comes after finitely many chunks, a
\* started _upload_single_video call returns, with a video id or with None,
\* and every record of a confirmed batch eventually is Done or Failed, the
\* run ending with its summary.
C30_UploadTerminates ==
    /\ (pc \in {"loop", "next_chunk"}) ~> (pc = "upload_returned")
    /\ (pc = "loop") ~> (/\ pc = "done"
                         /\ summary_printed
                         /\ \A k \in DOMAIN videos : status[k] \in Finished)

C30_Witness ==
    /\ pc = "upload_returned"
    /\ i = 2
    /\ status[1] = "Failed"
    /\ chunks = MaxChunks
    /\ retry = MAX_RETRIES
    /\ video_id = VideoIdOf(2)

====
